---------------------------- MODULE Spec2Model ----------------------------
(***************************************************************************)
(* Model of the agent runtime of abhishekbiswas772/ai_agents.              *)
(*                                                                         *)
(*  - the orchestrator: Agent.run / Agent._agentic_loop (agents/agents.py) *)
(*    over the transcript of ContextManager (context/manager.py);          *)
(*  - the provider bridges' chat_completion retry loops                    *)
(*    (byom/providers/*_provider.py and the legacy clients/llm_client.py). *)
(*                                                                         *)
(* Text is modelled as a sequence of characters (<<>> is the empty string) *)
(* so that concatenation and emptiness tests are those of the code.        *)
(***************************************************************************)
EXTENDS Integers, Sequences, FiniteSets, TLC

(***************************************************************************)
(* Bounds of the model.                                                    *)
(***************************************************************************)
\* largest configured max_turns explored
MaxTurns == 2
\* largest number of TEXT_DELTA / TOOL_CALL_COMPLETE events the client
\* delivers over the life of one agent
MaxStreamEvents == 3
\* number of Agent.run calls on one agent
MaxRuns == 1
\* largest configured ProviderConfig.max_retries explored
MaxRetries == 2
\* largest number of chunks the backend streams in one attempt
MaxChunks == 2
\* largest number of tool-call fragments in one backend stream
MaxFragments == 3
\* number of chat_completion calls on one provider with a thinking parser
MaxRequests == 2

\* the largest priority given to register_provider
MaxPriority == 1

\* how deep the JSON values given to the parser functions are nested
MaxNesting == 2

VARIABLES
    \* ---- orchestrator (agents/agents.py, agents/session.py, context/manager.py)
    pc,               \* position of Agent.run / _agentic_loop
    max_turns,        \* Config.max_turns
    iteration,        \* _agentic_loop: iteration
    turn_count,       \* Session._turn_count
    response_text,    \* _agentic_loop: response_text
    had_error,        \* _agentic_loop: had_error
    tool_calls,       \* _agentic_loop: tool_calls
    tool_call_result, \* _agentic_loop: tool_call_result
    tcIdx,            \* position of "for tool_call in tool_calls"
    final_response,   \* Agent.run: final_response
    messages,         \* ContextManager._messages
    nStream,          \* TEXT_DELTA / TOOL_CALL_COMPLETE events received so far
    runs,             \* Agent.run calls so far
    trace,            \* what the current run did, in order: events received
                      \* from the client, lifecycle events yielded,
                      \* completions requested, tools invoked
    \* ---- one chat_completion call of a provider
    \*      (byom/providers/*_provider.py, clients/llm_client.py)
    provider,         \* which implementation runs
    p_max_retries,    \* ProviderConfig.max_retries / LLMClient.max_retries
    attempt,          \* chat_completion: attempt ("attemps" in the legacy client)
    ppc,              \* position of chat_completion
    chunkNo,          \* chunks of the backend stream consumed in this attempt
    out,              \* the events the caller has received, in order
    blog,             \* what happened at the backend and the clock, in order:
                      \* calls, failures raised, sleeps
    \* ---- the tool-call part of one _stream_response, run by the three
    \*      OpenAI-compatible implementations on the same backend stream
    spc,              \* position of _stream_response
    frags,            \* the tool-call fragments the backend has sent, in order
    tdict,            \* per implementation: its tool_calls dict
    sev,              \* per implementation: the events it has yielded
    client_events,    \* the events ProviderBridge.adapt_stream has yielded
                      \* for the registered provider's events
    \* ---- the text part of a provider's _stream_response and its thinking
    \*      parser (byom/providers/base.py)
    thinking_mode,    \* ProviderConfig.thinking_mode
    in_thinking_block, \* LLMProvider._in_thinking_block
    thinking_buffer,  \* LLMProvider._thinking_buffer
    tpc,              \* position of chat_completion
    requests,         \* chat_completion calls so far
    before_call,      \* the parser state the current call found
    backend_text,     \* the text the backend sends for the current request
    remaining,        \* the part of it not yet delivered
    delivered,        \* the chunks delivered so far, in order
    tev,              \* the events yielded for the current request
    \* ---- the provider registry (byom/providers/registry.py) and the
    \*      client that uses it (byom/client/llm_client.py)
    installed,        \* the provider modules whose import registers a class
    _PROVIDERS,       \* registry._PROVIDERS: the names registered
    _PROVIDER_PRIORITY, \* registry._PROVIDER_PRIORITY
    provider_setting, \* config.model.provider.value
    model_name,       \* config.model_name
    _provider,        \* LLMClient._provider
    last_call,        \* the last chat_completion: the model sent, the
                      \* provider used, and the registry at that time
    \* ---- one call of a function of byom/tools/tool_call_parser.py
    json_str,         \* the text given
    given_call,       \* the ToolCall given
    parser_call,      \* the function called, "none" before the call
    returned,         \* what it returned
    \* ---- SubagentTool.execute (tools/subagents.py)
    definition,       \* self.definition
    entered,          \* where the model enters execute: "execute" or "run"
    sub_pc,           \* "idle", "execute", "running", "done" or "raised"
    deadline_passed,  \* asyncio.get_event_loop().time() > deadline
    terminate_response,
    sub_final_response, \* execute's final_response
    sub_tool_names,   \* execute's tool_calls
    sub_error,        \* execute's error
    consumed,         \* the entries of trace the reader is past
    transcript,       \* the sub-agent's messages when execute left the run
    sub_result        \* the ToolResult execute returns

agentVars == <<pc, max_turns, iteration, turn_count, response_text, had_error,
               tool_calls, tool_call_result, tcIdx, final_response, messages,
               nStream, runs, trace>>

provVars == <<provider, p_max_retries, attempt, ppc, chunkNo, out, blog>>

asmVars == <<spc, frags, tdict, sev, client_events>>

thinkVars == <<thinking_mode, in_thinking_block, thinking_buffer, tpc,
               requests, before_call, backend_text, remaining, delivered, tev>>

regVars == <<installed, _PROVIDERS, _PROVIDER_PRIORITY, provider_setting,
             model_name, _provider, last_call>>

parseVars == <<json_str, given_call, parser_call, returned>>

subVars == <<definition, entered, sub_pc, deadline_passed, terminate_response,
             sub_final_response, sub_tool_names, sub_error, consumed,
             transcript, sub_result>>

vars == <<agentVars, provVars, asmVars, thinkVars, regVars, parseVars,
          subVars>>

\* what an action of one part leaves alone
notAgent == <<provVars, asmVars, thinkVars, regVars, parseVars,
    subVars>>
notProvider == <<agentVars, asmVars, thinkVars, regVars, parseVars,
    subVars>>
notAssembly == <<agentVars, provVars, thinkVars, regVars, parseVars,
    subVars>>
notThinking == <<agentVars, provVars, asmVars, regVars, parseVars,
    subVars>>
notRegistry == <<agentVars, provVars, asmVars, thinkVars, parseVars,
    subVars>>
notParser == <<agentVars, provVars, asmVars, thinkVars, regVars,
    subVars>>
notSubagent == <<provVars, asmVars, thinkVars, regVars, parseVars>>

(***************************************************************************)
(* Values.                                                                 *)
(***************************************************************************)
\* An optional value (Python's "x | None"): <<>> is None, <<x>> is x
None == <<>>
Some(x) == <<x>>

\* contents of the TEXT_DELTA events the client yields (never empty:
\* clients/llm_client.py:117 yields only "if delta.content")
Texts == {<<"a">>, <<"b">>}

\* call ids the client puts on a ToolCall; "" when the backend sent none
\* (clients/llm_client.py:128, "tool_call_delta.id or ''")
CallIds == {"", "c1"}

ToolNames == {"read_file"}

\* ToolCall(call_id, name, arguments) as built in clients/llm_client.py:160-164
ToolCalls == [call_id : CallIds, name : ToolNames, arguments : {"args"}]

UserMessages == {<<"h", "i">>}

(***************************************************************************)
(* context/manager.py                                                      *)
(***************************************************************************)
MessageItem(role, content, tool_call_id, tcs) ==
    [role |-> role, content |-> content, tool_call_id |-> tool_call_id,
     tool_calls |-> tcs]

\* Python truthiness of a text or a list
Truthy(x) == x # <<>>

\* ... of an optional call id (None and "" are both false)
TruthyId(o) == o # None /\ o[1] # ""

\* ... of an optional text or optional list
TruthyOpt(o) == o # None /\ o[1] # <<>>

\* MessageItem.to_dict: the keys present depend on role and on truthiness
to_dict(m) ==
    LET base == [k \in {"role"} |-> m.role]
        withContent == IF m.role = "tool" \/ Truthy(m.content)
                       THEN base @@ [k \in {"content"} |-> m.content]
                       ELSE base
        withId == IF TruthyId(m.tool_call_id)
                  THEN withContent @@ [k \in {"tool_call_id"} |-> m.tool_call_id[1]]
                  ELSE withContent
    IN  IF Truthy(m.tool_calls)
        THEN withId @@ [k \in {"tool_calls"} |-> m.tool_calls]
        ELSE withId

system_message == [k \in {"role", "content"} |->
                     IF k = "role" THEN "system" ELSE <<"s">>]

\* ContextManager.get_messages: the system prompt, then every item's dict
get_messages(msgs) ==
    <<system_message>> \o [i \in 1..Len(msgs) |-> to_dict(msgs[i])]

add_user_message(msgs, content) ==
    Append(msgs, MessageItem("user", content, None, <<>>))

\* content or "" ; tool_calls or []
add_assistant_message(msgs, content, tcs) ==
    Append(msgs, MessageItem("assistant",
                             IF TruthyOpt(content) THEN content[1] ELSE <<>>,
                             None,
                             IF TruthyOpt(tcs) THEN tcs[1] ELSE <<>>))

add_tool_call_result(msgs, tool_call_id, content) ==
    Append(msgs, MessageItem("tool", content, Some(tool_call_id), <<>>))

(***************************************************************************)
(* tools/base.py, tools/register_tools.py                                  *)
(***************************************************************************)
\* what ToolRegistery.invoke can return: a ToolResult, never an exception
ToolResults == [success : BOOLEAN]

\* what can happen inside ToolRegistery.invoke: no tool of that name, the
\* parameters fail validation, execute raises, or execute returns a result
InvokeOutcomes == {"unknown_tool", "invalid_params", "raised",
                   "returned_failure", "returned_ok"}

\* the outcomes in which the invocation failed
FailedOutcomes == InvokeOutcomes \ {"returned_ok"}

\* ToolRegistery.invoke: error_result for an unknown tool (45-51), for
\* validation errors (52-60) and for an exception of execute (68-75);
\* otherwise the tool's own result (66, 76)
invoke(outcome) ==
    CASE outcome = "unknown_tool" -> [success |-> FALSE]
      [] outcome = "invalid_params" -> [success |-> FALSE]
      [] outcome = "raised" -> [success |-> FALSE]
      [] outcome = "returned_failure" -> [success |-> FALSE]
      [] OTHER -> [success |-> TRUE]

\* mutant of to_model_output: the error text is left out
to_model_output_without_error(result) == <<"o">>

\* ToolResult.to_model_output: the output, or the error text before it
to_model_output(result) ==
    IF result.success THEN <<"o">> ELSE <<"E", "o">>

(***************************************************************************)
(* agents/agents.py                                                        *)
(***************************************************************************)
\* an entry of the run's trace; nmsg is the transcript's length at that moment
Ev(kind, data, msgs) == [kind |-> kind, data |-> data, nmsg |-> Len(msgs)]

LifecycleKinds == {"agent_start", "text_delta", "text_complete",
                   "tool_call_start", "tool_call_complete", "agent_error",
                   "agent_end"}

\* mutant of RunForward: keeps the first TEXT_COMPLETE of the run
RunForwardKeepsFirst(fr, e) ==
    IF e.kind = "text_complete" /\ fr = <<>> THEN e.data.content ELSE fr

\* Agent.run forwards every event of the loop and keeps the content of the
\* last TEXT_COMPLETE (lines 31-34)
RunForward(fr, e) ==
    IF e.kind = "text_complete" THEN e.data.content ELSE fr

\* json.dumps(tc.arguments) if it is a dict (line 79)
tool_calls_for_context(tcs) ==
    [i \in 1..Len(tcs) |->
        [id |-> tcs[i].call_id, type |-> "function",
         function |-> [name |-> tcs[i].name,
                       arguments |-> <<"json", tcs[i].arguments>>]]]

\* Agent.run, lines 16-30, and the entry of _agentic_loop, lines 41-43
Run ==
    /\ pc \in {"idle", "done"}
    /\ runs < MaxRuns
    /\ \E message \in UserMessages :
         /\ trace' = <<Ev("agent_start", [message |-> message], messages)>>
         /\ messages' = add_user_message(messages, message)
    /\ final_response' = <<>>
    /\ iteration' = 0
    /\ runs' = runs + 1
    /\ pc' = "loop"
    /\ UNCHANGED notAgent
    /\ UNCHANGED <<max_turns, turn_count, response_text, had_error, tool_calls,
                   tool_call_result, tcIdx, nStream>>

\* while iteration < max_iterations: lines 45-56, up to the request
LoopHead ==
    /\ pc = "loop"
    /\ IF iteration < max_turns
       THEN /\ iteration' = iteration + 1
            /\ turn_count' = turn_count + 1
            /\ response_text' = <<>>
            /\ had_error' = FALSE
            /\ tool_calls' = <<>>
            /\ trace' = Append(trace, Ev("request", [turn |-> iteration + 1],
                                            messages))
            /\ pc' = "stream"
       ELSE /\ pc' = "end"
            /\ UNCHANGED <<iteration, turn_count, response_text, had_error,
                           tool_calls, trace>>
    /\ UNCHANGED notAgent
    /\ UNCHANGED <<max_turns, tool_call_result, tcIdx, final_response,
                   messages, nStream, runs>>

\* TEXT_DELTA, lines 58-62
OnTextDelta ==
    /\ pc = "stream"
    /\ nStream < MaxStreamEvents
    /\ \E content \in Texts :
         /\ response_text' = response_text \o content
         /\ trace' = trace \o
                <<Ev("recv", [type |-> "TEXT_DELTA"], messages),
                  Ev("text_delta", [content |-> content], messages)>>
    /\ nStream' = nStream + 1
    /\ UNCHANGED notAgent
    /\ UNCHANGED <<pc, max_turns, iteration, turn_count, had_error, tool_calls,
                   tool_call_result, tcIdx, final_response, messages, runs>>

\* TOOL_CALL_COMPLETE, lines 63-65
OnToolCallComplete ==
    /\ pc = "stream"
    /\ nStream < MaxStreamEvents
    /\ \E tc \in ToolCalls :
         /\ tool_calls' = Append(tool_calls, tc)
         /\ trace' = Append(trace, Ev("recv", [type |-> "TOOL_CALL_COMPLETE",
                                               call_id |-> tc.call_id],
                                      messages))
    /\ nStream' = nStream + 1
    /\ UNCHANGED notAgent
    /\ UNCHANGED <<pc, max_turns, iteration, turn_count, response_text,
                   had_error, tool_call_result, tcIdx, final_response,
                   messages, runs>>

\* mutant of OnError: the error is reported but the loop is not left
OnErrorContinues ==
    /\ pc = "stream"
    /\ ~had_error
    /\ had_error' = TRUE
    /\ trace' = trace \o
           <<Ev("recv", [type |-> "ERROR"], messages),
             Ev("agent_error", [error |-> "error"], messages)>>
    /\ UNCHANGED notAgent
    /\ UNCHANGED <<pc, max_turns, iteration, turn_count, response_text,
                   tool_calls, tool_call_result, tcIdx, final_response,
                   messages, nStream, runs>>

\* ERROR, lines 66-69: emit agent_error and return from the loop
OnError ==
    /\ pc = "stream"
    /\ had_error' = TRUE
    /\ trace' = trace \o
           <<Ev("recv", [type |-> "ERROR"], messages),
             Ev("agent_error", [error |-> "error"], messages)>>
    /\ pc' = "end"
    /\ UNCHANGED notAgent
    /\ UNCHANGED <<max_turns, iteration, turn_count, response_text, tool_calls,
                   tool_call_result, tcIdx, final_response, messages, nStream,
                   runs>>

\* the stream is exhausted (after MESSAGE_COMPLETE): lines 71-95
OnStreamEnd ==
    /\ pc = "stream"
    /\ LET record == ~had_error /\ (Truthy(response_text) \/ Truthy(tool_calls))
           content_to_add == IF Truthy(response_text) THEN Some(response_text)
                             ELSE IF Truthy(tool_calls) THEN None
                             ELSE Some(<<>>)
           tcs == IF Truthy(tool_calls)
                  THEN Some(tool_calls_for_context(tool_calls)) ELSE None
           msgs1 == IF record
                    THEN add_assistant_message(messages, content_to_add, tcs)
                    ELSE messages
           complete == Ev("text_complete", [content |-> response_text], msgs1)
           emit == record /\ Truthy(response_text)
       IN  /\ messages' = msgs1
           /\ trace' = IF emit THEN Append(trace, complete) ELSE trace
           /\ final_response' = IF emit THEN RunForward(final_response, complete)
                                ELSE final_response
    /\ IF ~Truthy(tool_calls)
       THEN pc' = "end" /\ UNCHANGED <<tool_call_result, tcIdx>>
       ELSE pc' = "tool_start" /\ tool_call_result' = <<>> /\ tcIdx' = 1
    /\ UNCHANGED notAgent
    /\ UNCHANGED <<max_turns, iteration, turn_count, response_text, had_error,
                   tool_calls, nStream, runs>>

\* lines 96-101: the tool-call-start event of the next call
ToolCallStart ==
    /\ pc = "tool_start"
    /\ LET tool_call == tool_calls[tcIdx]
       IN  trace' = Append(trace, Ev("tool_call_start",
                       [call_id |-> tool_call.call_id, name |-> tool_call.name,
                        arguments |-> tool_call.arguments], messages))
    /\ pc' = "tool_invoke"
    /\ UNCHANGED notAgent
    /\ UNCHANGED <<max_turns, iteration, turn_count, response_text, had_error,
                   tool_calls, tool_call_result, tcIdx, final_response,
                   messages, nStream, runs>>

\* mutant of AppendResults: the results are appended last first
RECURSIVE AppendResultsReversed(_, _)
AppendResultsReversed(msgs, results) ==
    IF results = <<>> THEN msgs
    ELSE add_tool_call_result(AppendResultsReversed(msgs, Tail(results)),
                              Head(results).tool_call_id,
                              Head(results).content)

\* lines 124-128: one tool message per collected result, in order
RECURSIVE AppendResults(_, _)
AppendResults(msgs, results) ==
    IF results = <<>> THEN msgs
    ELSE AppendResults(
            add_tool_call_result(msgs, Head(results).tool_call_id,
                                 Head(results).content),
            Tail(results))

\* lines 102-128: invoke the tool, emit tool-call-complete, collect the
\* result; after the last call of the turn append the tool messages
ToolInvoke ==
    /\ pc = "tool_invoke"
    /\ \E outcome \in InvokeOutcomes :
         LET result == invoke(outcome)
             tool_call == tool_calls[tcIdx]
             results == Append(tool_call_result,
                          [tool_call_id |-> tool_call.call_id,
                           content |-> to_model_output(result),
                           is_error |-> ~result.success])
             tr1 == trace \o
                    <<Ev("invoke", [call_id |-> tool_call.call_id,
                                    name |-> tool_call.name], messages),
                      Ev("tool_call_complete",
                         [call_id |-> tool_call.call_id,
                          name |-> tool_call.name,
                          success |-> result.success], messages)>>
         IN  /\ tool_call_result' = results
             /\ IF tcIdx < Len(tool_calls)
                THEN /\ tcIdx' = tcIdx + 1
                     /\ pc' = "tool_start"
                     /\ trace' = tr1
                     /\ UNCHANGED messages
                ELSE /\ messages' = AppendResults(messages, results)
                     /\ trace' = tr1
                     /\ pc' = "loop"
                     /\ UNCHANGED tcIdx
    /\ UNCHANGED notAgent
    /\ UNCHANGED <<max_turns, iteration, turn_count, response_text, had_error,
                   tool_calls, final_response, nStream, runs>>

\* mutant of AgentEnd: run returns without the agent-end event
AgentEndSilent ==
    /\ pc = "end"
    /\ pc' = "done"
    /\ UNCHANGED notAgent
    /\ UNCHANGED <<max_turns, iteration, turn_count, response_text, had_error,
                   tool_calls, tool_call_result, tcIdx, final_response,
                   messages, nStream, runs, trace>>

\* Agent.run, line 37
AgentEnd ==
    /\ pc = "end"
    /\ trace' = Append(trace, Ev("agent_end", [response |-> final_response],
                                 messages))
    /\ pc' = "done"
    /\ UNCHANGED notAgent
    /\ UNCHANGED <<max_turns, iteration, turn_count, response_text, had_error,
                   tool_calls, tool_call_result, tcIdx, final_response,
                   messages, nStream, runs>>

(***************************************************************************)
(* chat_completion of the providers and of the legacy client.              *)
(*                                                                         *)
(* The backend answers one request with a stream of chunks; a retry sends  *)
(* the same request again and the stream starts over, so the k-th chunk of *)
(* every attempt is the k-th chunk of the answer.  At the call and at each *)
(* chunk the backend may instead raise a failure.                          *)
(***************************************************************************)
\* OpenAIProvider, AnthropicProvider, GoogleProvider, and clients.LLMClient
Providers == {"openai", "anthropic", "google", "legacy"}

\* RateLimitError, APIConnectionError, any other APIError, any other exception
Failures == {"rate_limit", "connection", "api", "other"}

\* LLMClient.max_retries of the legacy client
LegacyMaxRetries == 3

\* Config.max_turns when not configured
DefaultMaxTurns == 100

\* the event types of byom.providers.base.StreamEvent, and of
\* clients.response.StreamEventType for the legacy client
TextType(p) == IF p = "legacy" THEN "TEXT_DELTA" ELSE "text"
DoneType(p) == IF p = "legacy" THEN "MESSAGE_COMPLETE" ELSE "done"
ErrorType(p) == IF p = "legacy" THEN "ERROR" ELSE "error"

\* an event as the caller receives it; attempt and chunk say where it came
\* from (chunk 0: not made from a chunk)
OutEvent(type, k) == [type |-> type, attempt |-> attempt, chunk |-> k]

\* mutant of ExceptClause: every API error is backed off and retried
ExceptClauseRetriesApiError(p, f) ==
    CASE p = "google" -> "error"
      [] f \in {"rate_limit", "connection", "api"} -> "backoff"
      [] OTHER -> "error"

\* which except clause of chat_completion catches failure f:
\*   "backoff"   - sleep and retry while attempt < max_retries, else error
\*   "error"     - yield an error event and return
\*   "propagate" - no clause: the exception leaves chat_completion
ExceptClause(p, f) ==
    CASE p = "openai" ->
            (CASE f \in {"rate_limit", "connection"} -> "backoff"
               [] f = "api" -> "error"
               [] OTHER -> "propagate")
      [] p = "legacy" ->
            (CASE f \in {"rate_limit", "connection"} -> "backoff"
               [] OTHER -> "error")
      [] p = "anthropic" ->
            (CASE f = "rate_limit" -> "backoff"
               [] OTHER -> "error")
      [] OTHER -> "error"

\* mutant of wait_time: the delay does not grow with the attempt
wait_time_fixed(a) == 2

\* wait_time = 2 ** attempt
wait_time(a) == 2 ^ a

\* the except clauses of chat_completion for failure f raised in this
\* attempt; log is the backend log up to the raise
Except(f, log) ==
    LET failed == Append(log, [kind |-> "fail", attempt |-> attempt,
                               failure |-> f])
        clause == ExceptClause(provider, f)
    IN  CASE clause = "backoff" /\ attempt < p_max_retries ->
                /\ blog' = Append(failed, [kind |-> "sleep", attempt |-> attempt,
                                           wait |-> wait_time(attempt)])
                /\ attempt' = attempt + 1
                /\ ppc' = "attempt"
                /\ UNCHANGED out
          [] clause = "propagate" ->
                /\ blog' = failed
                /\ ppc' = "raised"
                /\ UNCHANGED <<attempt, out>>
          [] OTHER ->
                /\ blog' = failed
                /\ out' = Append(out, OutEvent(ErrorType(provider), 0))
                /\ ppc' = "returned"
                /\ UNCHANGED attempt

\* chat_completion is called: the request is built, the retry loop entered
ChatCompletion ==
    /\ ppc = "idle"
    /\ attempt' = 0
    /\ ppc' = "attempt"
    /\ UNCHANGED <<provider, p_max_retries, chunkNo, out, blog>>
    /\ UNCHANGED notProvider

\* _stream_response: the backend accepts the request and opens the stream
OpenStream ==
    /\ ppc = "attempt"
    /\ blog' = Append(blog, [kind |-> "call", attempt |-> attempt])
    /\ chunkNo' = 0
    /\ ppc' = "streaming"
    /\ UNCHANGED <<provider, p_max_retries, attempt, out>>
    /\ UNCHANGED notProvider

\* _stream_response: the backend call raises before the first chunk
CallFails ==
    /\ ppc = "attempt"
    /\ \E f \in Failures :
         Except(f, Append(blog, [kind |-> "call", attempt |-> attempt]))
    /\ UNCHANGED <<provider, p_max_retries, chunkNo>>
    /\ UNCHANGED notProvider

\* a text chunk arrives and is yielded as a text event
StreamChunk ==
    /\ ppc = "streaming"
    /\ chunkNo < MaxChunks
    /\ chunkNo' = chunkNo + 1
    /\ out' = Append(out, OutEvent(TextType(provider), chunkNo + 1))
    /\ UNCHANGED <<provider, p_max_retries, attempt, ppc, blog>>
    /\ UNCHANGED notProvider

\* the backend raises while the stream is being read
StreamFails ==
    /\ ppc = "streaming"
    /\ \E f \in Failures : Except(f, blog)
    /\ UNCHANGED <<provider, p_max_retries, chunkNo>>
    /\ UNCHANGED notProvider

\* the stream ends (for Anthropic: message_stop arrives): the completion
\* event is yielded and chat_completion returns
StreamEnd ==
    /\ ppc = "streaming"
    /\ out' = Append(out, OutEvent(DoneType(provider), 0))
    /\ ppc' = "returned"
    /\ UNCHANGED <<provider, p_max_retries, attempt, chunkNo, blog>>
    /\ UNCHANGED notProvider

\* the client the orchestrator holds: the legacy LLMClient, not yet called
ProviderIdle ==
    /\ provider = "legacy"
    /\ p_max_retries = LegacyMaxRetries
    /\ attempt = 0
    /\ ppc = "idle"
    /\ chunkNo = 0
    /\ out = <<>>
    /\ blog = <<>>

(***************************************************************************)
(* Argument text and its parsing: json.loads and                           *)
(* byom/tools/tool_call_parser.py.                                         *)
(*                                                                         *)
(* A text is a sequence of pieces.  A piece is one character ("{", ",",    *)
(* a quote, a blank, the digit "1"), a word of letters ("q", "x", "null",  *)
(* "text"), the two characters backslash-n, or one of the abbreviations    *)
(* OpenQ, StrX and EmptyObject, which Chars spells out.  A parsed value is *)
(* <<"str", pieces>>, <<"num", digits>>, <<"null">>, <<"arr", v, ...>> or  *)
(* <<"obj", key, v, ...>> with the keys in insertion order.                *)
(***************************************************************************)
OpenQ == "{\"q\":"
StrX == "\"x\""
Close == "}"
Comma == ","
EmptyObject == "{}"
Open == "{"
OpenBracket == "["
CloseBracket == "]"
Colon == ":"
Quote == "\""
SingleQuote == "'"
Space == " "
Digit == "1"
Null == "null"
EscapedNewline == "\\n"
Newline == "\n"

\* [a-zA-Z_]+ , [0-9] and [\x00-\x1f\x7f]
Words == {"q", "x", "text", Null}
Digits == {Digit}
ControlChars == {Newline}

\* the characters of a text
RECURSIVE Chars(_)
Chars(t) ==
    IF t = <<>> THEN <<>>
    ELSE (CASE Head(t) = OpenQ -> <<Open, Quote, "q", Quote, Colon>>
            [] Head(t) = StrX -> <<Quote, "x", Quote>>
            [] Head(t) = EmptyObject -> <<Open, Close>>
            [] OTHER -> <<Head(t)>>) \o Chars(Tail(t))

\* str.strip()
RECURSIVE LStrip(_)
LStrip(t) == IF t # <<>> /\ Head(t) = " " THEN LStrip(Tail(t)) ELSE t

RECURSIVE RStrip(_)
RStrip(t) ==
    IF t # <<>> /\ t[Len(t)] = " " THEN RStrip(SubSeq(t, 1, Len(t) - 1))
    ELSE t

Strip(t) == RStrip(LStrip(t))

StartsWith(t, m) == Len(t) >= Len(m) /\ SubSeq(t, 1, Len(m)) = m
EndsWith(t, m) ==
    Len(t) >= Len(m) /\ SubSeq(t, Len(t) - Len(m) + 1, Len(t)) = m

\* the longest prefix of pieces in S
RECURSIVE Longest(_, _)
Longest(t, S) ==
    IF t = <<>> \/ Head(t) \notin S THEN <<>>
    ELSE <<Head(t)>> \o Longest(Tail(t), S)

Drop(t, n) == SubSeq(t, n + 1, Len(t))

\* d[key] = value on <<"obj", key, v, ...>>
DictSet(d, key, value) ==
    IF \E i \in 1..((Len(d) - 1) \div 2) : d[2 * i] = key
    THEN [j \in DOMAIN d |->
            IF j > 1 /\ j % 2 = 1 /\ d[j - 1] = key THEN value ELSE d[j]]
    ELSE d \o <<key, value>>

JsonFail == [ok |-> FALSE, value |-> <<>>, rest |-> <<>>]

\* a JSON string after its opening quote: the content up to the closing
\* quote, the escape \n decoded; a raw control character is an error
RECURSIVE JsonString(_)
JsonString(t) ==
    IF t = <<>> \/ Head(t) \in ControlChars THEN JsonFail
    ELSE IF Head(t) = Quote
    THEN [ok |-> TRUE, value |-> <<>>, rest |-> Tail(t)]
    ELSE LET r == JsonString(Tail(t))
             c == IF Head(t) = EscapedNewline THEN Newline ELSE Head(t)
         IN  IF r.ok THEN [r EXCEPT !.value = <<c>> \o r.value] ELSE JsonFail

\* json's recursive descent over the characters: the value read and what
\* is left
RECURSIVE JsonValue(_)
RECURSIVE JsonElements(_, _)
RECURSIVE JsonMembers(_, _)
JsonValue(t) ==
    IF t = <<>> THEN JsonFail
    ELSE IF Head(t) = Quote
    THEN LET r == JsonString(Tail(t))
         IN  IF r.ok THEN [r EXCEPT !.value = <<"str", r.value>>]
             ELSE JsonFail
    ELSE IF Head(t) \in Digits
    THEN LET digits == Longest(t, Digits)
         IN  [ok |-> TRUE, value |-> <<"num", digits>>,
              rest |-> Drop(t, Len(digits))]
    ELSE IF Head(t) = Null
    THEN [ok |-> TRUE, value |-> <<"null">>, rest |-> Tail(t)]
    ELSE IF Head(t) = OpenBracket
    THEN LET s == LStrip(Tail(t))
         IN  IF s # <<>> /\ Head(s) = CloseBracket
             THEN [ok |-> TRUE, value |-> <<"arr">>, rest |-> Tail(s)]
             ELSE JsonElements(s, <<"arr">>)
    ELSE IF Head(t) = Open
    THEN LET s == LStrip(Tail(t))
         IN  IF s # <<>> /\ Head(s) = Close
             THEN [ok |-> TRUE, value |-> <<"obj">>, rest |-> Tail(s)]
             ELSE JsonMembers(s, <<"obj">>)
    ELSE JsonFail

\* the elements of an array, from the first character of an element on
JsonElements(t, arr) ==
    LET v == JsonValue(t)
        r == LStrip(v.rest)
    IN  IF ~v.ok \/ r = <<>> THEN JsonFail
        ELSE IF Head(r) = Comma
        THEN JsonElements(LStrip(Tail(r)), Append(arr, v.value))
        ELSE IF Head(r) = CloseBracket
        THEN [ok |-> TRUE, value |-> Append(arr, v.value), rest |-> Tail(r)]
        ELSE JsonFail

\* the members of an object, from the opening quote of a key on
JsonMembers(t, obj) ==
    IF t = <<>> \/ Head(t) # Quote THEN JsonFail
    ELSE LET key == JsonString(Tail(t))
             c == LStrip(key.rest)
         IN  IF ~key.ok \/ c = <<>> \/ Head(c) # Colon THEN JsonFail
             ELSE LET v == JsonValue(LStrip(Tail(c)))
                      r == LStrip(v.rest)
                  IN  IF ~v.ok \/ r = <<>> THEN JsonFail
                      ELSE IF Head(r) = Comma
                      THEN JsonMembers(LStrip(Tail(r)),
                                       DictSet(obj, key.value, v.value))
                      ELSE IF Head(r) = Close
                      THEN [ok |-> TRUE,
                            value |-> DictSet(obj, key.value, v.value),
                            rest |-> Tail(r)]
                      ELSE JsonFail

\* json.loads: the value, or None for JSONDecodeError (also on extra data)
json_loads(t) ==
    LET v == JsonValue(LStrip(Chars(t)))
    IN  IF v.ok /\ LStrip(v.rest) = <<>> THEN Some(v.value) ELSE None

Count(t, tok) == Cardinality({i \in DOMAIN t : t[i] = tok})

\* repair_json step 1: single quotes become double quotes when the text
\* has no double quote
ReplaceSingleQuotes(t) ==
    IF Count(t, SingleQuote) > 0 /\ Count(t, Quote) = 0
    THEN [i \in DOMAIN t |-> IF t[i] = SingleQuote THEN Quote ELSE t[i]]
    ELSE t

\* repair_json step 2: re.sub(r',\s*}', '}', ...) and the same for "]",
\* wherever the characters stand
RECURSIVE StripTrailingCommas(_, _)
StripTrailingCommas(t, closer) ==
    IF t = <<>> THEN <<>>
    ELSE IF Head(t) # Comma
    THEN <<Head(t)>> \o StripTrailingCommas(Tail(t), closer)
    ELSE LET s == LStrip(Tail(t))
         IN  IF s # <<>> /\ Head(s) = closer
             THEN <<closer>> \o StripTrailingCommas(Tail(s), closer)
             ELSE <<Head(t)>> \o StripTrailingCommas(Tail(t), closer)

\* repair_json step 3:
\* re.sub(r'(\{|\,)\s*([a-zA-Z_][a-zA-Z0-9_]*)\s*:', r'\1"\2":', ...)
RECURSIVE QuoteBareKeys(_)
QuoteBareKeys(t) ==
    IF t = <<>> THEN <<>>
    ELSE IF Head(t) \notin {Open, Comma}
    THEN <<Head(t)>> \o QuoteBareKeys(Tail(t))
    ELSE LET s == LStrip(Tail(t))
             ident == IF s # <<>> /\ Head(s) \in Words
                      THEN Longest(s, Words \cup Digits) ELSE <<>>
             after == LStrip(Drop(s, Len(ident)))
         IN  IF ident # <<>> /\ after # <<>> /\ Head(after) = Colon
             THEN <<Head(t), Quote>> \o ident \o <<Quote, Colon>>
                      \o QuoteBareKeys(Tail(after))
             ELSE <<Head(t)>> \o QuoteBareKeys(Tail(t))

\* repair_json step 4: '}' * open_braces, then ']' * open_brackets
CloseOpenStructures(t) ==
    LET open_braces == Count(t, Open) - Count(t, Close)
        open_brackets == Count(t, OpenBracket) - Count(t, CloseBracket)
    IN  t \o (IF open_braces > 0 THEN [i \in 1..open_braces |-> Close]
              ELSE <<>>)
          \o (IF open_brackets > 0
              THEN [i \in 1..open_brackets |-> CloseBracket] ELSE <<>>)

\* repair_json steps 5 and 6: control characters are removed, and every
\* backslash-n becomes a blank
RemoveControlChars(t) == SelectSeq(t, LAMBDA c : c \notin ControlChars)

ReplaceEscapedNewlines(t) ==
    [i \in DOMAIN t |-> IF t[i] = EscapedNewline THEN Space ELSE t[i]]

\* repair_json
repair_json(t) ==
    IF Strip(Chars(t)) = <<>> THEN <<Open, Close>>
    ELSE ReplaceEscapedNewlines(RemoveControlChars(CloseOpenStructures(
             QuoteBareKeys(StripTrailingCommas(StripTrailingCommas(
                 ReplaceSingleQuotes(Chars(t)), Close), CloseBracket)))))

\* re.search(r'\{.*\}', json_str, re.DOTALL): first "{" to last "}"
ExtractObject(t) ==
    LET opens == {i \in DOMAIN t : t[i] = Open}
        closes == {j \in DOMAIN t : t[j] = Close}
    IN  IF \E i \in opens, j \in closes : i < j
        THEN LET i == CHOOSE a \in opens : \A b \in opens : a <= b
                 j == CHOOSE a \in closes : \A b \in closes : a >= b
             IN  Some(SubSeq(t, i, j))
        ELSE None

\* [^,\}\]]+ : the characters up to the first ",", "}" or "]"
RECURSIVE ValueRun(_)
ValueRun(t) ==
    IF t = <<>> \/ Head(t) \in {Comma, Close, CloseBracket} THEN <<>>
    ELSE <<Head(t)>> \o ValueRun(Tail(t))

\* value_str.strip('"\'')
RECURSIVE StripQuotes(_)
StripQuotes(t) ==
    IF t # <<>> /\ Head(t) \in {Quote, SingleQuote} THEN StripQuotes(Tail(t))
    ELSE IF t # <<>> /\ t[Len(t)] \in {Quote, SingleQuote}
    THEN StripQuotes(SubSeq(t, 1, Len(t) - 1))
    ELSE t

\* lines 129-151, on match.group(2): a quoted value loses its quotes, null
\* is None, digits are an int, anything else is kept as a string (these
\* texts have no true, false or ".")
HeuristicValue(run) ==
    LET value_str == Strip(run)
    IN  IF \E q \in {Quote, SingleQuote} :
               StartsWith(value_str, <<q>>) /\ EndsWith(value_str, <<q>>)
        THEN <<"str", SubSeq(value_str, 2, Len(value_str) - 1)>>
        ELSE IF value_str = <<Null>> THEN <<"null">>
        ELSE IF value_str # <<>> /\ Longest(value_str, Digits) = value_str
        THEN <<"num", value_str>>
        ELSE <<"str", StripQuotes(value_str)>>

\* the pattern ["']?([a-zA-Z_][a-zA-Z0-9_]*)["']?\s*:\s*([^,\}\]]+) tried
\* at the start of t: the key, the value and the characters matched
HeuristicMatch(t) ==
    LET s == IF t # <<>> /\ Head(t) \in {Quote, SingleQuote}
             THEN Tail(t) ELSE t
        key == IF s # <<>> /\ Head(s) \in Words
               THEN Longest(s, Words \cup Digits) ELSE <<>>
        k == Drop(s, Len(key))
        c == LStrip(IF k # <<>> /\ Head(k) \in {Quote, SingleQuote}
                    THEN Tail(k) ELSE k)
        run == IF c # <<>> /\ Head(c) = Colon THEN ValueRun(Tail(c))
               ELSE <<>>
    IN  IF key # <<>> /\ run # <<>>
        THEN [ok |-> TRUE, key |-> key, value |-> HeuristicValue(run),
              rest |-> Drop(Tail(c), Len(run))]
        ELSE [ok |-> FALSE, key |-> <<>>, value |-> <<>>, rest |-> <<>>]

\* re.finditer over the text: every match sets result[key]
RECURSIVE HeuristicScan(_, _)
HeuristicScan(t, result) ==
    IF t = <<>> THEN result
    ELSE LET m == HeuristicMatch(t)
         IN  IF m.ok
             THEN HeuristicScan(m.rest, DictSet(result, m.key, m.value))
             ELSE HeuristicScan(Tail(t), result)

\* _extract_key_values_heuristic: None stands for the empty result, which
\* parse_json_safe passes over ("if extracted")
_extract_key_values_heuristic(t) ==
    LET result == HeuristicScan(Chars(t), <<"obj">>)
    IN  IF result = <<"obj">> THEN None ELSE Some(result)

\* parse_json_safe: the ordered strategies, the first that succeeds, with
\* its name; the last resort {"raw_arguments": json_str, "_parse_error":
\* True} is <<"raw_arguments", json_str>>
Strategies(t) ==
    LET chars == Chars(t)
        direct == json_loads(chars)
        repaired == json_loads(repair_json(chars))
        match == ExtractObject(chars)
        extracted == IF match # None THEN json_loads(repair_json(match[1]))
                     ELSE None
        heuristic == _extract_key_values_heuristic(chars)
    IN  IF Strip(chars) = <<>>
        THEN [strategy |-> "empty", value |-> <<"obj">>]
        ELSE IF direct # None
        THEN [strategy |-> "direct", value |-> direct[1]]
        ELSE IF repaired # None
        THEN [strategy |-> "repair", value |-> repaired[1]]
        ELSE IF extracted # None
        THEN [strategy |-> "extract", value |-> extracted[1]]
        ELSE IF heuristic # None
        THEN [strategy |-> "heuristic", value |-> heuristic[1]]
        ELSE [strategy |-> "last_resort", value |-> <<"raw_arguments", t>>]

Strategy(t) == Strategies(t).strategy

parse_json_safe(t) == Strategies(t).value

\* OpenAIProvider._stream_response, lines 238-241: json.loads, {} for empty
\* text, {"_raw": text} on JSONDecodeError
provider_arguments(t) ==
    LET direct == json_loads(t)
    IN  IF t = <<>> THEN <<"obj">>
        ELSE IF direct # None THEN direct[1]
        ELSE <<"_raw", t>>

\* clients.response.parse_tool_call_arguments, applied to the text
parse_tool_call_arguments(t) == <<"parse_tool_call_arguments", t>>

\* ---------------------------------------------------------------------
\* The functions of byom/tools/tool_call_parser.py, each called once on an
\* input: a text (valid JSON, JSON that lost its last closers, JSON with a
\* trailing comma, JSON inside prose, other text) or a ToolCall.
\* ---------------------------------------------------------------------

\* values nested n deep over the scalars given: [v] and {"q": v}
RECURSIVE Nested(_, _)
Nested(scalars, n) ==
    IF n = 0 THEN scalars
    ELSE LET inner == Nested(scalars, n - 1)
         IN  inner \cup {<<OpenBracket>> \o v \o <<CloseBracket>> : v \in inner}
                   \cup {<<Open, Quote, "q", Quote, Colon>> \o v \o <<Close>> :
                            v \in inner}

\* 1, "x" and null
PlainScalars == {<<Digit>>, <<Quote, "x", Quote>>, <<Null>>}

\* the strings ",}", "{", "[" and "x\nx" (backslash-n, an escaped newline)
StringScalars ==
    { <<Quote, Comma, Close, Quote>>,
      <<Quote, Open, Quote>>,
      <<Quote, OpenBracket, Quote>>,
      <<Quote, "x", EscapedNewline, "x", Quote>> }

PlainJson == Nested(PlainScalars, MaxNesting)
ValidJson == Nested(PlainScalars \cup StringScalars, MaxNesting)

Closers == {Close, CloseBracket}

\* the closers a text ends with
RECURSIVE TrailingClosers(_)
TrailingClosers(t) ==
    IF t = <<>> \/ t[Len(t)] \notin Closers THEN 0
    ELSE 1 + TrailingClosers(SubSeq(t, 1, Len(t) - 1))

\* the text without its last n characters
CutOff(t, n) == SubSeq(t, 1, Len(t) - n)

Truncations(t) == {CutOff(t, n) : n \in 1..TrailingClosers(t)}

\* a comma, or a comma and a blank, put before the last closer
TrailingCommas(t) ==
    IF TrailingClosers(t) = 0 \/ t[Len(t) - 1] \in {Open, OpenBracket}
    THEN {}
    ELSE {CutOff(t, 1) \o sep \o <<t[Len(t)]>> :
             sep \in {<<Comma>>, <<Comma, Space>>}}

InProse(t) == <<"text", Space>> \o t \o <<Space, "text">>

OtherTexts ==
    { <<>>, <<Space>>, <<"text">>, <<"q", Colon, Space, "x">>,
      <<Open, "q", Colon, Digit, Close>>,
      <<Open, SingleQuote, "q", SingleQuote, Colon, SingleQuote, "x",
        SingleQuote, Close>>,
      <<OpenQ, Quote, "x">>, <<OpenQ, StrX, Comma, Close>> }

JsonStrings ==
    ValidJson
        \cup UNION {Truncations(v) : v \in PlainJson}
        \cup UNION {TrailingCommas(v) : v \in PlainJson}
        \cup {InProse(v) : v \in PlainJson}
        \cup OtherTexts

\* ToolCall: the arguments are a mapping or the text json_str
ToolCallInputs(text) ==
    [call_id : {<<>>, <<" ">>, <<"call_123">>},
     name : {<<>>, <<" ">>, <<"read_file">>},
     arguments : {<<"mapping">>, <<"text", text>>}]

\* "not x" for a text
NotText(x) == x = <<>>

\* "not x or not x.strip()"
Blank(x) == x = <<>> \/ Strip(x) = <<>>

\* "; ".join(errors)
RECURSIVE Join(_, _)
Join(errors, sep) ==
    IF errors = <<>> THEN <<>>
    ELSE IF Len(errors) = 1 THEN errors[1]
    ELSE errors[1] \o <<sep>> \o Join(Tail(errors), sep)

\* tool_call.arguments[:100]
First100(t) == IF Len(t) <= 100 THEN t ELSE SubSeq(t, 1, 100)

\* validate_tool_call: (is_valid, error_message)
validate_tool_call(call) ==
    LET errors ==
            (IF Blank(call.call_id) THEN <<<<"call_id", " is empty">>>>
             ELSE <<>>)
         \o (IF Blank(call.name) THEN <<<<"tool ", "name", " is empty">>>>
             ELSE <<>>)
         \o (IF /\ call.arguments[1] = "text"
                /\ Strip(Chars(call.arguments[2])) # <<>>
                /\ json_loads(call.arguments[2]) = None
                /\ json_loads(repair_json(call.arguments[2])) = None
             THEN << <<"arguments", " are not valid JSON: ">>
                       \o First100(Chars(call.arguments[2])) >>
             ELSE <<>>)
    IN  [is_valid |-> Len(errors) = 0,
         message |-> IF errors # <<>> THEN Some(Join(errors, "; "))
                     ELSE None]

\* parse_json_safe(json_str) is called
CallParseJsonSafe ==
    /\ parser_call = "none"
    /\ parser_call' = "parse_json_safe"
    /\ returned' = Some(parse_json_safe(json_str))
    /\ UNCHANGED <<json_str, given_call>>
    /\ UNCHANGED notParser

\* repair_json(json_str) is called
CallRepairJson ==
    /\ parser_call = "none"
    /\ parser_call' = "repair_json"
    /\ returned' = Some(repair_json(json_str))
    /\ UNCHANGED <<json_str, given_call>>
    /\ UNCHANGED notParser

\* validate_tool_call(given_call) is called
CallValidateToolCall ==
    /\ parser_call = "none"
    /\ parser_call' = "validate_tool_call"
    /\ returned' = Some(validate_tool_call(given_call))
    /\ UNCHANGED <<json_str, given_call>>
    /\ UNCHANGED notParser

\* no function of the parser module is called
ParserIdle ==
    /\ json_str = <<>>
    /\ given_call = [call_id |-> <<>>, name |-> <<>>,
                    arguments |-> <<"mapping">>]
    /\ parser_call = "none"
    /\ returned = None

(***************************************************************************)
(* tools/subagents.py: SubagentTool.execute.  Lines 43-51 build the        *)
(* sub-agent's Config from the definition; lines 65-105 run the sub-agent  *)
(* (the agent of agents/agents.py above) and read its events.  The agent   *)
(* is suspended at each event it yields until the reader has handled it;   *)
(* the transcript at that moment is the first nmsg messages.               *)
(***************************************************************************)
\* CODEBASE_INVESTIGATOR, CODE_REVIEWER, and a definition with the defaults
Definitions ==
    { [name |-> "codebase_investigator",
       allowed_tools |-> <<"list", <<"read_file", "grep", "glob", "list_dir">>>>,
       max_turns |-> 20, timeout_seconds |-> 600],
      [name |-> "code_reviewer",
       allowed_tools |-> <<"list", <<"read_file", "grep", "list_dir">>>>,
       max_turns |-> 10, timeout_seconds |-> 300],
      [name |-> "custom", allowed_tools |-> <<"none">>,
       max_turns |-> 20, timeout_seconds |-> 600] }

\* lines 47-50: config_dict of the parent Config with the entries set from
\* the definition
config_dict(def) ==
    LET parent == [max_turns |-> <<"int", DefaultMaxTurns>>]
        with_turns == [parent EXCEPT !.max_turns = def.allowed_tools]
    IN  IF def.allowed_tools[1] = "list" /\ def.allowed_tools[2] # <<>>
        THEN [k \in {"max_turns", "allowed_tools"} |->
                IF k = "max_turns" THEN with_turns.max_turns
                ELSE def.allowed_tools]
        ELSE [k \in {"max_turns"} |-> with_turns.max_turns]

\* Config(**config_dict): pydantic takes max_turns : int only from an
\* integer and raises ValidationError otherwise; None stands for the error
NewConfig(values) ==
    IF values["max_turns"][1] = "int"
    THEN Some([max_turns |-> values["max_turns"][2]])
    ELSE None

\* lines 43-51 and 65-73: the Config is built and the run begins, or
\* Config(...) raises and execute is left
Execute ==
    /\ sub_pc = "execute"
    /\ LET subagent_config == NewConfig(config_dict(definition))
       IN  IF subagent_config = None
           THEN /\ sub_pc' = "raised"
                /\ UNCHANGED max_turns
           ELSE /\ sub_pc' = "running"
                /\ max_turns' = subagent_config[1].max_turns
    /\ UNCHANGED <<definition, entered, deadline_passed, terminate_response,
                   sub_final_response, sub_tool_names, sub_error, consumed,
                   transcript, sub_result>>
    /\ UNCHANGED <<pc, iteration, turn_count, response_text, had_error,
                   tool_calls, tool_call_result, tcIdx, final_response,
                   messages, nStream, runs, trace>>
    /\ UNCHANGED notSubagent

\* the events of the trace that run yields and the reader has not had yet
Pending ==
    {i \in (consumed + 1)..Len(trace) : trace[i].kind \in LifecycleKinds}

\* the agent runs on: the reader waits for its next event
AgentRuns == sub_pc = "running" /\ Pending = {} /\ (pc = "done" => runs = 0)

\* lines 96-105: the ToolResult of execute
SubagentResult(reason, error) ==
    [success |-> error = None, termination |-> reason]

\* lines 74-90: the reader gets the next event of the run
OnAgentEvent ==
    /\ sub_pc = "running"
    /\ Pending # {}
    /\ LET i == CHOOSE j \in Pending : \A k \in Pending : j <= k
           event == trace[i]
       IN  /\ consumed' = i
           /\ IF deadline_passed
              THEN /\ terminate_response' = "timeout"
                   /\ sub_final_response' = Some(<<"SubAgent timeout out">>)
                   /\ sub_pc' = "done"
                   /\ transcript' = SubSeq(messages, 1, event.nmsg)
                   /\ sub_result' = Some(SubagentResult("timeout", sub_error))
                   /\ UNCHANGED <<sub_tool_names, sub_error>>
              ELSE IF event.kind = "agent_error"
              THEN /\ terminate_response' = "error"
                   /\ sub_error' = Some(event.data.error)
                   /\ sub_final_response' = Some(<<"SubAgent error">>)
                   /\ sub_pc' = "done"
                   /\ transcript' = SubSeq(messages, 1, event.nmsg)
                   /\ sub_result' =
                          Some(SubagentResult("error", Some(event.data.error)))
                   /\ UNCHANGED sub_tool_names
              ELSE /\ sub_tool_names' =
                          IF event.kind = "tool_call_start"
                          THEN Append(sub_tool_names, event.data.name)
                          ELSE sub_tool_names
                   /\ sub_final_response' =
                          IF event.kind = "text_complete"
                          THEN Some(event.data.content)
                          ELSE IF event.kind = "agent_end"
                                  /\ sub_final_response = None
                          THEN Some(event.data.response)
                          ELSE sub_final_response
                   /\ UNCHANGED <<terminate_response, sub_error, sub_pc,
                                  transcript, sub_result>>
    /\ UNCHANGED <<definition, entered, deadline_passed>>
    /\ UNCHANGED agentVars
    /\ UNCHANGED notSubagent

\* the run has yielded its last event: the loop of line 74 ends
RunExhausted ==
    /\ sub_pc = "running"
    /\ pc = "done"
    /\ runs > 0
    /\ Pending = {}
    /\ sub_pc' = "done"
    /\ transcript' = messages
    /\ sub_result' = Some(SubagentResult(terminate_response, sub_error))
    /\ UNCHANGED <<definition, entered, deadline_passed, terminate_response,
                   sub_final_response, sub_tool_names, sub_error, consumed>>
    /\ UNCHANGED agentVars
    /\ UNCHANGED notSubagent

\* the clock passes the deadline of line 71
DeadlinePasses ==
    /\ sub_pc = "running"
    /\ ~deadline_passed
    /\ deadline_passed' = TRUE
    /\ UNCHANGED <<definition, entered, sub_pc, terminate_response,
                   sub_final_response, sub_tool_names, sub_error, consumed,
                   transcript, sub_result>>
    /\ UNCHANGED agentVars
    /\ UNCHANGED notSubagent

\* no sub-agent tool is executing
SubagentIdle ==
    /\ definition = [name |-> "custom", allowed_tools |-> <<"none">>,
                     max_turns |-> 20, timeout_seconds |-> 600]
    /\ entered = "none"
    /\ sub_pc = "idle"
    /\ deadline_passed = FALSE
    /\ terminate_response = "goal"
    /\ sub_final_response = None
    /\ sub_tool_names = <<>>
    /\ sub_error = None
    /\ consumed = 0
    /\ transcript = <<>>
    /\ sub_result = None

\* Agent.__init__ and Session.__init__: nothing has run yet
AgentConstructed ==
    /\ pc = "idle"
    /\ iteration = 0
    /\ turn_count = 0
    /\ response_text = <<>>
    /\ had_error = FALSE
    /\ tool_calls = <<>>
    /\ tool_call_result = <<>>
    /\ tcIdx = 1
    /\ final_response = <<>>
    /\ messages = <<>>
    /\ nStream = 0
    /\ runs = 0
    /\ trace = <<>>

(***************************************************************************)
(* Thinking tags: ThinkingParser and LLMProvider._process_thinking         *)
(* (byom/providers/base.py), as the providers' _stream_response uses them. *)
(*                                                                         *)
(* Text is a sequence of pieces.  The opening marker "<think>" is the two  *)
(* pieces "<thi", "nk>" and the closing marker "</think>" the two pieces   *)
(* "</thi", "nk>", so that a chunk boundary can fall inside a marker.      *)
(* "i" is a piece of thinking, "v" a piece of visible text, " " a space.   *)
(***************************************************************************)
OpenMarker == <<"<thi", "nk>">>
CloseMarker == <<"</thi", "nk>">>

\* ThinkingMode.DISABLED and ThinkingMode.TAGS
ThinkingModes == {"disabled", "tags"}

\* what a backend may send for one request
BackendTexts ==
    { OpenMarker \o <<"i">> \o CloseMarker \o <<"v">>,
      <<"v">> \o OpenMarker \o <<"i">> \o CloseMarker,
      <<"v", " ", "v">>,
      OpenMarker \o <<"i">> }

\* ThinkingParser.is_thinking_start / is_thinking_end
is_thinking_start(text) == StartsWith(Strip(text), OpenMarker)
is_thinking_end(text) == EndsWith(Strip(text), CloseMarker)

\* the positions at which marker m begins in t
MarkerAt(t, m) == {i \in 1..(Len(t) - 1) : SubSeq(t, i, i + 1) = m}

Least(S) == CHOOSE x \in S : \A y \in S : x <= y

\* re '<think>(.*?)</think>': findall and sub('') over the whole text, the
\* matches left to right, each from an opening marker to the nearest
\* closing marker after it
RECURSIVE MatchAll(_)
MatchAll(t) ==
    LET opens == MarkerAt(t, OpenMarker)
    IN  IF opens = {} THEN [cleaned |-> t, parts |-> <<>>]
        ELSE LET i == Least(opens)
                 closes == {j \in MarkerAt(t, CloseMarker) : j >= i + 2}
             IN  IF closes = {} THEN [cleaned |-> t, parts |-> <<>>]
                 ELSE LET j == Least(closes)
                          rest == MatchAll(SubSeq(t, j + 2, Len(t)))
                      IN  [cleaned |-> SubSeq(t, 1, i - 1) \o rest.cleaned,
                           parts |-> <<SubSeq(t, i + 2, j - 1)>> \o rest.parts]

\* '\n'.join(thinking_parts)
RECURSIVE JoinLines(_)
JoinLines(parts) ==
    IF parts = <<>> THEN <<>>
    ELSE IF Len(parts) = 1 THEN parts[1]
    ELSE parts[1] \o <<"\n">> \o JoinLines(Tail(parts))

\* ThinkingParser.extract_thinking: (cleaned.strip(), joined thinking)
extract_thinking(text) ==
    [cleaned |-> Strip(MatchAll(text).cleaned),
     thinking |-> JoinLines(MatchAll(text).parts)]

\* mutant of _reset_thinking_state: the state is left as it is
keep_thinking_state(state) == state

\* LLMProvider._reset_thinking_state
reset_thinking_state(state) == [buffer |-> <<>>, in_block |-> FALSE]

\* LLMProvider._process_thinking: the display content, the thinking content
\* (<<>> also stands for None: the caller only tests truthiness) and the
\* parser state it leaves
process_thinking(mode, state, content) ==
    IF mode = "disabled"
    THEN [content |-> content, thinking |-> <<>>, state |-> state]
    ELSE LET in_block == state.in_block \/ is_thinking_start(content)
         IN  IF in_block
             THEN LET buffer == state.buffer \o content
                  IN  IF is_thinking_end(content)
                      THEN [content |-> extract_thinking(buffer).cleaned,
                            thinking |-> extract_thinking(buffer).thinking,
                            state |-> [buffer |-> <<>>, in_block |-> FALSE]]
                      ELSE [content |-> <<>>, thinking |-> <<>>,
                            state |-> [buffer |-> buffer, in_block |-> TRUE]]
             ELSE [content |-> extract_thinking(content).cleaned,
                   thinking |-> extract_thinking(content).thinking,
                   state |-> state]

ThinkingState == [buffer |-> thinking_buffer, in_block |-> in_thinking_block]

\* chat_completion is called: the parser state is reset, the request sent;
\* the backend will stream some text
ThinkingChatCompletion ==
    /\ tpc \in {"idle", "returned"}
    /\ requests < MaxRequests
    /\ requests' = requests + 1
    /\ before_call' = ThinkingState
    /\ thinking_buffer' = reset_thinking_state(ThinkingState).buffer
    /\ in_thinking_block' = reset_thinking_state(ThinkingState).in_block
    /\ \E text \in BackendTexts :
         /\ backend_text' = text
         /\ remaining' = text
    /\ delivered' = <<>>
    /\ tev' = <<>>
    /\ tpc' = "streaming"
    /\ UNCHANGED thinking_mode
    /\ UNCHANGED notThinking

\* a chunk with delta.content arrives (openai_provider.py lines 197-211):
\* the thinking event if there is thinking, then the text event if there is
\* content
OnContentChunk ==
    /\ tpc = "streaming"
    /\ \E k \in 1..Len(remaining) :
         LET content == SubSeq(remaining, 1, k)
             r == process_thinking(thinking_mode, ThinkingState, content)
         IN  /\ remaining' = SubSeq(remaining, k + 1, Len(remaining))
             /\ delivered' = Append(delivered, content)
             /\ thinking_buffer' = r.state.buffer
             /\ in_thinking_block' = r.state.in_block
             /\ tev' = tev
                   \o (IF r.thinking # <<>>
                       THEN <<[type |-> "thinking", content |-> r.thinking,
                               chunk |-> Len(delivered) + 1]>>
                       ELSE <<>>)
                   \o (IF r.content # <<>>
                       THEN <<[type |-> "text", content |-> r.content,
                               chunk |-> Len(delivered) + 1]>>
                       ELSE <<>>)
    /\ UNCHANGED <<thinking_mode, tpc, requests, before_call, backend_text>>
    /\ UNCHANGED notThinking

\* the backend stream ends: the completion event
OnContentEnd ==
    /\ tpc = "streaming"
    /\ remaining = <<>>
    /\ tev' = Append(tev, [type |-> "done", content |-> <<>>,
                           chunk |-> Len(delivered)])
    /\ tpc' = "returned"
    /\ UNCHANGED <<thinking_mode, in_thinking_block, thinking_buffer, requests,
                   before_call, backend_text, remaining, delivered>>
    /\ UNCHANGED notThinking

\* LLMProvider.__init__: an empty buffer, not in a block, nothing called yet
ProviderConstructed ==
    /\ in_thinking_block = FALSE
    /\ thinking_buffer = <<>>
    /\ tpc = "idle"
    /\ requests = 0
    /\ before_call = [buffer |-> <<>>, in_block |-> FALSE]
    /\ backend_text = <<>>
    /\ remaining = <<>>
    /\ delivered = <<>>
    /\ tev = <<>>

\* the agent's legacy client has no thinking parser
ThinkingIdle ==
    /\ thinking_mode = "disabled"
    /\ ProviderConstructed

(***************************************************************************)
(* The tool-call part of _stream_response in the three OpenAI-compatible   *)
(* implementations: the registered provider (byom/providers), the legacy   *)
(* client (clients/llm_client.py) and byom/client/providers.               *)
(***************************************************************************)
Impls == {"provider", "legacy", "client_provider"}

\* tool_call_delta.index
Indexes == {0, 1}

\* tool_call_delta.function.name: absent, or the tool's name
FragmentNames == {"", "search"}

\* tool_call_delta.function.arguments: absent, or a piece of argument text
ArgFragments == {<<>>, <<OpenQ>>, <<StrX>>, <<StrX, Close>>,
                 <<StrX, Comma, Close>>}

Fragments == [index : Indexes, name : FragmentNames, arguments : ArgFragments]

\* tool_call_delta.id of the first fragment of an index
CallIdOf(idx) == <<"call", idx>>

\* the event type names of the provider's StreamEvent and of StreamEventType
EvType(impl, kind) ==
    IF impl = "provider"
    THEN (CASE kind = "start" -> "tool_call_start"
            [] kind = "complete" -> "tool_call"
            [] OTHER -> "done")
    ELSE (CASE kind = "start" -> "TOOL_CALL_START"
            [] kind = "delta" -> "TOOL_CALL_DELTA"
            [] kind = "complete" -> "TOOL_CALL_COMPLETE"
            [] OTHER -> "MESSAGE_COMPLETE")

\* the tool_calls dict: its keys in insertion order, and its entries
EmptyDict == [order |-> <<>>, buf |-> <<>>]

\* mutant of AppendArguments: the fragment is put in front
PrependArguments(old, fragment) == fragment \o old

\* tool_calls[idx]["arguments"] += function.arguments
AppendArguments(old, fragment) == old \o fragment

\* "if idx not in tool_calls": the new entry
WithEntry(d, idx) ==
    IF idx \in DOMAIN d.buf THEN d
    ELSE [order |-> Append(d.order, idx),
          buf |-> (idx :> [id |-> CallIdOf(idx), name |-> "",
                           arguments |-> <<>>]) @@ d.buf]

\* one tool_call_delta in the registered provider (lines 215-234) and, with
\* the TOOL_CALL_DELTA event added, in byom/client/providers (194-233):
\* the name is taken, and the start event emitted, only where the entry is
\* created
StepProvider(impl, d, f) ==
    LET created == f.index \notin DOMAIN d.buf
        d1 == WithEntry(d, f.index)
        named == created /\ f.name # ""
        b2 == IF named THEN [d1.buf EXCEPT ![f.index].name = f.name]
              ELSE d1.buf
        b3 == IF f.arguments # <<>>
              THEN [b2 EXCEPT ![f.index].arguments =
                                 AppendArguments(@, f.arguments)]
              ELSE b2
        start == IF named
                 THEN <<[type |-> EvType(impl, "start"),
                         id |-> b2[f.index].id, name |-> f.name]>>
                 ELSE <<>>
        delta == IF impl = "client_provider" /\ f.arguments # <<>>
                 THEN <<[type |-> EvType(impl, "delta"),
                         id |-> b2[f.index].id, name |-> b2[f.index].name,
                         arguments_delta |-> f.arguments]>>
                 ELSE <<>>
    IN  [dict |-> [order |-> d1.order, buf |-> b3], events |-> start \o delta]

\* one tool_call_delta in the legacy client (lines 124-153): every fragment
\* that carries a name sets the name and emits a start event
StepLegacy(d, f) ==
    LET d1 == WithEntry(d, f.index)
        named == f.name # ""
        b2 == IF named THEN [d1.buf EXCEPT ![f.index].name = f.name]
              ELSE d1.buf
        b3 == IF f.arguments # <<>>
              THEN [b2 EXCEPT ![f.index].arguments =
                                 AppendArguments(@, f.arguments)]
              ELSE b2
        start == IF named
                 THEN <<[type |-> EvType("legacy", "start"),
                         id |-> b2[f.index].id, name |-> f.name]>>
                 ELSE <<>>
        delta == IF f.arguments # <<>>
                 THEN <<[type |-> EvType("legacy", "delta"),
                         id |-> b2[f.index].id, name |-> f.name,
                         arguments_delta |-> f.arguments]>>
                 ELSE <<>>
    IN  [dict |-> [order |-> d1.order, buf |-> b3], events |-> start \o delta]

Step(impl, d, f) ==
    IF impl = "legacy" THEN StepLegacy(d, f) ELSE StepProvider(impl, d, f)

\* how each implementation turns the accumulated text into arguments
ParseArguments(impl, t) ==
    CASE impl = "provider" -> provider_arguments(t)
      [] impl = "legacy" -> parse_tool_call_arguments(t)
      [] OTHER -> parse_json_safe(t)

\* "for idx, tc in tool_calls.items()": one complete event per entry
Completes(impl, d) ==
    [k \in 1..Len(d.order) |->
        LET tc == d.buf[d.order[k]]
        IN  [type |-> EvType(impl, "complete"), id |-> tc.id,
             name |-> tc.name,
             arguments |-> ParseArguments(impl, tc.arguments)]]

\* "x or {}": a falsy value (an empty dict, list or string, None)
Falsy(v) == v \in {<<"obj">>, <<"arr">>, <<"null">>, <<"str", <<>>>>}

\* ProviderBridge._convert_event: the client events for one provider event
_convert_event(event) ==
    CASE event.type = "text" ->
            IF event.content # <<>>
            THEN <<[type |-> "TEXT_DELTA", content |-> event.content]>>
            ELSE <<>>
      [] event.type = "thinking" -> <<>>
      [] event.type = "tool_call_start" ->
            IF event.id # <<>> /\ event.name # ""
            THEN <<[type |-> "TOOL_CALL_START", id |-> event.id,
                    name |-> event.name]>>
            ELSE <<>>
      [] event.type = "tool_call" ->
            IF event.id # <<>> /\ event.name # ""
            THEN <<[type |-> "TOOL_CALL_COMPLETE", id |-> event.id,
                    name |-> event.name,
                    arguments |-> IF Falsy(event.arguments) THEN <<"obj">>
                                  ELSE event.arguments]>>
            ELSE <<>>
      [] event.type = "done" -> <<[type |-> "MESSAGE_COMPLETE"]>>
      [] event.type = "error" -> <<[type |-> "ERROR", error |-> event.error]>>
      [] OTHER -> <<>>

\* ProviderBridge.adapt_stream: each provider event is converted as it is
\* yielded, and the client events are yielded in that order
RECURSIVE adapt_stream(_)
adapt_stream(provider_stream) ==
    IF provider_stream = <<>> THEN <<>>
    ELSE _convert_event(Head(provider_stream))
            \o adapt_stream(Tail(provider_stream))

\* a chunk carries one tool_call_delta; each implementation processes it
OnToolCallDelta ==
    /\ spc = "streaming"
    /\ Len(frags) < MaxFragments
    /\ \E f \in Fragments :
         /\ frags' = Append(frags, f)
         /\ tdict' = [impl \in Impls |-> Step(impl, tdict[impl], f).dict]
         /\ sev' = [impl \in Impls |->
                       sev[impl] \o Step(impl, tdict[impl], f).events]
         /\ client_events' = client_events \o
                adapt_stream(Step("provider", tdict["provider"], f).events)
    /\ UNCHANGED spc
    /\ UNCHANGED notAssembly

\* the backend stream ends: the completed calls, then the completion event
OnStreamExhausted ==
    /\ spc = "streaming"
    /\ sev' = [impl \in Impls |->
                  sev[impl] \o Completes(impl, tdict[impl])
                            \o <<[type |-> EvType(impl, "done")]>>]
    /\ client_events' = client_events \o
           adapt_stream(Completes("provider", tdict["provider"])
                            \o <<[type |-> EvType("provider", "done")]>>)
    /\ spc' = "ended"
    /\ UNCHANGED <<frags, tdict>>
    /\ UNCHANGED notAssembly

\* _stream_response has not been entered
AssemblyIdle ==
    /\ spc = "idle"
    /\ frags = <<>>
    /\ tdict = [impl \in Impls |-> EmptyDict]
    /\ sev = [impl \in Impls |-> <<>>]
    /\ client_events = <<>>

\* ---------------------------------------------------------------------
\* The provider registry (byom/providers/registry.py) and the client that
\* asks it for a provider (byom/client/llm_client.py).  A model name is a
\* sequence of pieces, a pattern of model_patterns is <<"prefix", pieces>>
\* for "^pieces.*" and <<"contains", pieces>> for ".*pieces.*".
\* ---------------------------------------------------------------------

\* the import order of _ensure_providers_loaded
BuiltIns == <<"openai", "anthropic", "google">>

ModelNames ==
    { <<"gpt-", "4">>,
      <<"claude-", "3-opus">>,
      <<"anthropic", "/", "claude-", "3">>,
      <<"Gemini-", "pro">>,
      <<"unknown-model">> }

\* what /model is given: a name, a name after a blank, or nothing
ModelArgs == ModelNames \cup {<<" ", "gpt-", "4">>, <<>>}

ProviderSettings == {"auto", "anthropic"}

\* the priority argument of register_provider
Priorities == {None} \cup {Some(n) : n \in 0..MaxPriority}

\* re.IGNORECASE
Lower(piece) == IF piece = "Gemini-" THEN "gemini-" ELSE piece

model_patterns(name) ==
    CASE name = "openai" ->
            { <<"prefix", <<"gpt-">>>>, <<"prefix", <<"o1-">>>>,
              <<"prefix", <<"text-">>>>, <<"prefix", <<"davinci">>>>,
              <<"contains", <<"/">>>>,
              <<"prefix", <<"mistral">>>>, <<"prefix", <<"mixtral">>>>,
              <<"prefix", <<"llama">>>>, <<"prefix", <<"codellama">>>>,
              <<"prefix", <<"deepseek">>>>, <<"prefix", <<"qwen">>>>,
              <<"prefix", <<"phi-">>>>, <<"prefix", <<"gemma">>>> }
      [] name = "anthropic" ->
            { <<"prefix", <<"claude-">>>>,
              <<"prefix", <<"anthropic", "/", "claude-">>>> }
      [] name = "google" ->
            { <<"prefix", <<"gemini-">>>>,
              <<"prefix", <<"google", "/", "gemini-">>>> }

\* re.match(pattern, model_name, re.IGNORECASE)
re_match(pattern, model) ==
    LET folded == [i \in DOMAIN model |-> Lower(model[i])]
    IN  IF pattern[1] = "prefix" THEN StartsWith(folded, pattern[2])
        ELSE \E i \in DOMAIN folded :
                 /\ i + Len(pattern[2]) - 1 <= Len(folded)
                 /\ SubSeq(folded, i, i + Len(pattern[2]) - 1) = pattern[2]

\* LLMProvider.supports_model
supports_model(name, model) ==
    \E pattern \in model_patterns(name) : re_match(pattern, model)

Contains(seq, x) == \E i \in DOMAIN seq : seq[i] = x

\* list.insert(at, x), at counted from 0
ListInsert(seq, at, x) ==
    SubSeq(seq, 1, at) \o <<x>> \o SubSeq(seq, at + 1, Len(seq))

Min(x, y) == IF x <= y THEN x ELSE y

\* register_provider on the registry reg = [providers, priority]: the keys
\* of the dict _PROVIDERS in insertion order, and _PROVIDER_PRIORITY
register_provider(reg, name, priority) ==
    [providers |-> IF Contains(reg.providers, name) THEN reg.providers
                   ELSE Append(reg.providers, name),
     priority |->
        IF Contains(reg.priority, name) THEN reg.priority
        ELSE IF priority # None
             THEN ListInsert(reg.priority,
                             Min(priority[1], Len(reg.priority)), name)
             ELSE Append(reg.priority, name)]

\* _ensure_providers_loaded: the import of a built-in module registers its
\* class when its SDK is installed
RECURSIVE ImportAll(_, _, _)
ImportAll(reg, modules, sdks) ==
    IF modules = <<>> THEN reg
    ELSE ImportAll(IF Head(modules) \in sdks
                   THEN register_provider(reg, Head(modules), None)
                   ELSE reg,
                   Tail(modules), sdks)

_ensure_providers_loaded(reg, sdks) ==
    IF reg.providers # <<>> THEN reg ELSE ImportAll(reg, BuiltIns, sdks)

\* the loop "for name in _PROVIDER_PRIORITY: if supports_model(model)"
RECURSIVE AutoDetect(_, _)
AutoDetect(priority, model) ==
    IF priority = <<>> THEN None
    ELSE IF supports_model(Head(priority), model) THEN Some(Head(priority))
    ELSE AutoDetect(Tail(priority), model)

\* "fallback = _PROVIDER_PRIORITY[0]"
FallbackLast(priority) == priority[Len(priority)]

Fallback(priority) == priority[1]

\* get_provider on a loaded registry: the provider whose instance it
\* returns, or the ValueError it raises
get_provider(reg, model, provider_name) ==
    IF provider_name # None
    THEN IF ~Contains(reg.providers, provider_name[1])
         THEN [raised |-> TRUE, instance |-> "ValueError"]
         ELSE [raised |-> FALSE, instance |-> provider_name[1]]
    ELSE IF AutoDetect(reg.priority, model) # None
         THEN [raised |-> FALSE, instance |-> AutoDetect(reg.priority, model)[1]]
    ELSE IF reg.priority # <<>>
         THEN [raised |-> FALSE, instance |-> Fallback(reg.priority)]
    ELSE [raised |-> TRUE, instance |-> "ValueError"]

Registry == [providers |-> _PROVIDERS, priority |-> _PROVIDER_PRIORITY]

\* a provider module is imported or register_provider is called directly
RegisterProvider ==
    \E name \in installed, priority \in Priorities :
        LET reg == register_provider(Registry, name, priority)
        IN  /\ _PROVIDERS' = reg.providers
            /\ _PROVIDER_PRIORITY' = reg.priority
            /\ UNCHANGED <<installed, provider_setting, model_name,
                           _provider, last_call>>
            /\ UNCHANGED notRegistry

\* LLMClient.chat_completion: _get_provider creates the provider only when
\* none is cached, then the request goes to it with config.model_name
ClientChatCompletion ==
    IF _provider = None
    THEN LET reg == _ensure_providers_loaded(Registry, installed)
             got == get_provider(reg, model_name,
                                 IF provider_setting # "auto"
                                 THEN Some(provider_setting) ELSE None)
         IN  /\ _PROVIDERS' = reg.providers
             /\ _PROVIDER_PRIORITY' = reg.priority
             /\ _provider' = IF got.raised THEN None ELSE Some(got.instance)
             /\ last_call' = Some([model |-> model_name, on |-> got.instance,
                                   created |-> TRUE, registry |-> reg])
             /\ UNCHANGED <<installed, provider_setting, model_name>>
             /\ UNCHANGED notRegistry
    ELSE /\ last_call' = Some([model |-> model_name, on |-> _provider[1],
                               created |-> FALSE, registry |-> Registry])
         /\ UNCHANGED <<installed, _PROVIDERS, _PROVIDER_PRIORITY,
                        provider_setting, model_name, _provider>>
         /\ UNCHANGED notRegistry

\* ModelCommand.execute
ModelCommand ==
    \E args \in ModelArgs :
        /\ model_name' = IF args # <<>> THEN Strip(args) ELSE model_name
        /\ UNCHANGED <<installed, _PROVIDERS, _PROVIDER_PRIORITY,
                       provider_setting, _provider, last_call>>
        /\ UNCHANGED notRegistry

\* LLMClient.close
ClientClose ==
    /\ _provider # None
    /\ _provider' = None
    /\ UNCHANGED <<installed, _PROVIDERS, _PROVIDER_PRIORITY,
                   provider_setting, model_name, last_call>>
    /\ UNCHANGED notRegistry

\* nothing is registered and the client has no provider
RegistryIdle ==
    /\ installed = {"openai", "anthropic", "google"}
    /\ _PROVIDERS = <<>>
    /\ _PROVIDER_PRIORITY = <<>>
    /\ provider_setting = "auto"
    /\ model_name = <<"gpt-", "4">>
    /\ _provider = None
    /\ last_call = None

\* the modules are not imported yet; LLMClient.__init__
InitRegistry ==
    /\ installed \in SUBSET {"openai", "anthropic", "google"}
    /\ _PROVIDERS = <<>>
    /\ _PROVIDER_PRIORITY = <<>>
    /\ provider_setting \in ProviderSettings
    /\ model_name \in ModelNames
    /\ _provider = None
    /\ last_call = None
    /\ max_turns = DefaultMaxTurns
    /\ AgentConstructed
    /\ ProviderIdle
    /\ AssemblyIdle
    /\ ThinkingIdle
    /\ ParserIdle
    /\ SubagentIdle

NextRegistry ==
    \/ RegisterProvider
    \/ ClientChatCompletion
    \/ ModelCommand
    \/ ClientClose

SpecRegistry == InitRegistry /\ [][NextRegistry]_vars

\* the inputs of the parser functions
InitParser ==
    /\ json_str \in JsonStrings
    /\ given_call \in ToolCallInputs(json_str)
    /\ parser_call = "none"
    /\ returned = None
    /\ max_turns = DefaultMaxTurns
    /\ AgentConstructed
    /\ ProviderIdle
    /\ AssemblyIdle
    /\ ThinkingIdle
    /\ RegistryIdle
    /\ SubagentIdle

NextParser ==
    \/ CallParseJsonSafe
    \/ CallRepairJson
    \/ CallValidateToolCall

SpecParser == InitParser /\ [][NextParser]_vars

\* _stream_response is entered: tool_calls = {}
InitAssembly ==
    /\ spc = "streaming"
    /\ frags = <<>>
    /\ tdict = [impl \in Impls |-> EmptyDict]
    /\ sev = [impl \in Impls |-> <<>>]
    /\ client_events = <<>>
    /\ max_turns = DefaultMaxTurns
    /\ AgentConstructed
    /\ ProviderIdle
    /\ ThinkingIdle
    /\ RegistryIdle
    /\ ParserIdle
    /\ SubagentIdle

NextAssembly ==
    \/ OnToolCallDelta
    \/ OnStreamExhausted

SpecAssembly == InitAssembly /\ [][NextAssembly]_vars

InitThinking ==
    /\ thinking_mode \in ThinkingModes
    /\ ProviderConstructed
    /\ max_turns = DefaultMaxTurns
    /\ AgentConstructed
    /\ ProviderIdle
    /\ AssemblyIdle
    /\ RegistryIdle
    /\ ParserIdle
    /\ SubagentIdle

NextThinking ==
    \/ ThinkingChatCompletion
    \/ OnContentChunk
    \/ OnContentEnd

SpecThinking == InitThinking /\ [][NextThinking]_vars

InitAgent ==
    /\ max_turns \in 0..MaxTurns
    /\ AgentConstructed
    /\ ProviderIdle
    /\ AssemblyIdle
    /\ ThinkingIdle
    /\ RegistryIdle
    /\ ParserIdle
    /\ SubagentIdle

NextAgent ==
    \/ Run
    \/ LoopHead
    \/ OnTextDelta
    \/ OnToolCallComplete
    \/ OnError
    \/ OnStreamEnd
    \/ ToolCallStart
    \/ ToolInvoke
    \/ AgentEnd

SpecAgent == InitAgent /\ [][NextAgent]_vars

\* execute is entered with a definition (line 43), or the loop of line 74
\* is entered with a sub-agent that has a Config (lines 65-73)
InitSubagent ==
    /\ definition \in Definitions
    /\ entered \in {"execute", "run"}
    /\ sub_pc = (IF entered = "execute" THEN "execute" ELSE "running")
    /\ max_turns \in (IF entered = "execute" THEN {DefaultMaxTurns}
                      ELSE 0..MaxTurns)
    /\ deadline_passed = FALSE
    /\ terminate_response = "goal"
    /\ sub_final_response = None
    /\ sub_tool_names = <<>>
    /\ sub_error = None
    /\ consumed = 0
    /\ transcript = <<>>
    /\ sub_result = None
    /\ AgentConstructed
    /\ ProviderIdle
    /\ AssemblyIdle
    /\ ThinkingIdle
    /\ RegistryIdle
    /\ ParserIdle

NextSubagent ==
    \/ Execute
    \/ AgentRuns /\ Run
    \/ AgentRuns /\ LoopHead
    \/ AgentRuns /\ OnTextDelta
    \/ AgentRuns /\ OnToolCallComplete
    \/ AgentRuns /\ OnError
    \/ AgentRuns /\ OnStreamEnd
    \/ AgentRuns /\ ToolCallStart
    \/ AgentRuns /\ ToolInvoke
    \/ AgentRuns /\ AgentEnd
    \/ OnAgentEvent
    \/ RunExhausted
    \/ DeadlinePasses

SpecSubagent == InitSubagent /\ [][NextSubagent]_vars

InitProvider ==
    /\ provider \in Providers
    /\ p_max_retries \in (IF provider = "legacy" THEN {LegacyMaxRetries}
                          ELSE 0..MaxRetries)
    /\ attempt = 0
    /\ ppc = "idle"
    /\ chunkNo = 0
    /\ out = <<>>
    /\ blog = <<>>
    /\ max_turns = DefaultMaxTurns
    /\ AgentConstructed
    /\ AssemblyIdle
    /\ ThinkingIdle
    /\ RegistryIdle
    /\ ParserIdle
    /\ SubagentIdle

NextProvider ==
    \/ ChatCompletion
    \/ OpenStream
    \/ CallFails
    \/ StreamChunk
    \/ StreamFails
    \/ StreamEnd

SpecProvider == InitProvider /\ [][NextProvider]_vars



(***************************************************************************)
(* Reading the trace of the current run.                                   *)
(***************************************************************************)
Indices == 1..Len(trace)

Requests == {i \in Indices : trace[i].kind = "request"}

\* the index of the request that follows request r, or one past the trace
NextReq(r) ==
    IF \E j \in Requests : j > r
    THEN CHOOSE j \in Requests : j > r /\ \A k \in Requests : k > r => j <= k
    ELSE Len(trace) + 1

\* the trace positions of the turn that request r opened
Turn(r) == (r + 1)..(NextReq(r) - 1)

IsRecv(i, type) == trace[i].kind = "recv" /\ trace[i].data.type = type

RecvIn(r, type) == {i \in Turn(r) : IsRecv(i, type)}

\* the request that opened the turn position i lies in
ReqOf(i) == CHOOSE r \in Requests : r < i /\ i < NextReq(r)

\* the concatenation of the text deltas emitted in a piece of the trace
RECURSIVE TextOf(_)
TextOf(seq) ==
    IF seq = <<>> THEN <<>>
    ELSE (IF Head(seq).kind = "text_delta" THEN Head(seq).data.content
          ELSE <<>>) \o TextOf(Tail(seq))

\* the call ids of the TOOL_CALL_COMPLETE events received in a piece
RECURSIVE CallsOf(_)
CallsOf(seq) ==
    IF seq = <<>> THEN <<>>
    ELSE (IF Head(seq).kind = "recv" /\ Head(seq).data.type = "TOOL_CALL_COMPLETE"
          THEN <<Head(seq).data.call_id>> ELSE <<>>) \o CallsOf(Tail(seq))

TurnSeq(r) == SubSeq(trace, r + 1, NextReq(r) - 1)

(***************************************************************************)
(* C1: once a turn's stream yields ERROR the run emits exactly one         *)
(* agent-error event and stops: nothing follows it but the agent-end       *)
(* event, no completion is requested, no tool is started or invoked in     *)
(* that turn (also when TOOL_CALL_COMPLETE events arrived before the       *)
(* error), and the transcript is as it was when the turn was requested.    *)
(***************************************************************************)
C1_ErrorStopsRun ==
    \A k \in Indices :
        IsRecv(k, "ERROR") =>
            /\ k < Len(trace)
            /\ trace[k + 1].kind = "agent_error"
            /\ Cardinality({j \in Indices : trace[j].kind = "agent_error"}) = 1
            /\ \A j \in Indices : j > k + 1 => trace[j].kind = "agent_end"
            /\ \A j \in Turn(ReqOf(k)) :
                  trace[j].kind \notin {"tool_call_start", "invoke",
                                        "tool_call_complete", "text_complete"}
            /\ Len(messages) = trace[ReqOf(k)].nmsg

\* an error that arrives after a TOOL_CALL_COMPLETE of the same stream, in a
\* run that has ended
C1_Witness ==
    /\ pc = "done"
    /\ \E k \in Indices :
          /\ IsRecv(k, "ERROR")
          /\ RecvIn(ReqOf(k), "TOOL_CALL_COMPLETE") # {}

(***************************************************************************)
(* C2: with max_turns = N >= 1 and a tool call requested on every turn, a  *)
(* run makes exactly N requests, executes one tool for N = 1, emits no     *)
(* agent-error event and ends with the termination reason                  *)
(* max_turns_reached.                                                      *)
(***************************************************************************)
EveryTurnRequestsOneTool ==
    \A r \in Requests :
        /\ Cardinality(RecvIn(r, "TOOL_CALL_COMPLETE")) = 1
        /\ RecvIn(r, "ERROR") = {}

\* the part of C2 that counts requests, tool executions and error events
C2_Counts ==
    /\ Cardinality(Requests) = max_turns
    /\ max_turns = 1 =>
          Cardinality({i \in Indices : trace[i].kind = "invoke"}) = 1
    /\ \A i \in Indices : trace[i].kind # "agent_error"

\* the run reports why it ended
C2_Reason ==
    LET e == trace[Len(trace)]
    IN  /\ e.kind = "agent_end"
        /\ "reason" \in DOMAIN e.data
        /\ e.data.reason = "max_turns_reached"

C2_MaxTurnsReached ==
    (pc = "done" /\ max_turns >= 1 /\ EveryTurnRequestsOneTool) =>
        (C2_Counts /\ C2_Reason)

\* what the code does do in that case (holds)
C2_CountsHold ==
    (pc = "done" /\ max_turns >= 1 /\ EveryTurnRequestsOneTool) => C2_Counts

(***************************************************************************)
(* C3: a turn whose stream carries text deltas, no completed tool call and *)
(* no error ends the run: no completion is requested after it, the loop is *)
(* left, and the agent-end event's response is the concatenation, in       *)
(* order, of that turn's text deltas.                                      *)
(***************************************************************************)
TextOnlyTurn(r) ==
    /\ RecvIn(r, "TEXT_DELTA") # {}
    /\ RecvIn(r, "TOOL_CALL_COMPLETE") = {}
    /\ RecvIn(r, "ERROR") = {}

C3_TextOnlyTurnEndsRun ==
    \A r \in Requests :
        TextOnlyTurn(r) =>
            /\ NextReq(r) = Len(trace) + 1
            /\ pc \in {"stream", "end", "done"}
            /\ pc = "done" =>
                  /\ trace[Len(trace)].kind = "agent_end"
                  /\ trace[Len(trace)].data.response = TextOf(TurnSeq(r))

\* a run ended by a text-only turn, after an earlier turn that had another
\* text as well as a tool call
C3_Witness ==
    /\ pc = "done"
    /\ \E r \in Requests :
          /\ TextOnlyTurn(r)
          /\ TextOf(TurnSeq(r)) = <<"b">>
          /\ \E q \in Requests : q < r /\ TextOf(TurnSeq(q)) = <<"a">>

(***************************************************************************)
(* C9: every tool message of the transcript get_messages returns carries a *)
(* tool_call_id found in the tool_calls of an earlier assistant message    *)
(* (and messages are only ever appended: C9_AppendOnly).                   *)
(***************************************************************************)
RefersToEarlierCall(t, i) ==
    /\ "tool_call_id" \in DOMAIN t[i]
    /\ \E j \in 1..(i - 1) :
          /\ t[j].role = "assistant"
          /\ "tool_calls" \in DOMAIN t[j]
          /\ \E k \in 1..Len(t[j].tool_calls) :
                t[j].tool_calls[k].id = t[i].tool_call_id

C9_ToolMessagesReferToCalls ==
    LET t == get_messages(messages)
    IN  \A i \in 1..Len(t) : t[i].role = "tool" => RefersToEarlierCall(t, i)

\* the second half of C9, which the code satisfies
C9_AppendOnly ==
    [][/\ Len(messages') >= Len(messages)
       /\ SubSeq(messages', 1, Len(messages)) = messages]_vars

\* what holds of the stored items: the tool item's id is the id of a call
\* of an earlier assistant item (the dict drops an empty id)
C9_StoredItemsReferToCalls ==
    \A i \in 1..Len(messages) :
        messages[i].role = "tool" =>
            \E j \in 1..(i - 1) :
                /\ messages[j].role = "assistant"
                /\ \E k \in 1..Len(messages[j].tool_calls) :
                      Some(messages[j].tool_calls[k].id) = messages[i].tool_call_id

(***************************************************************************)
(* C10: within a turn the tool calls are run one at a time in the order    *)
(* their TOOL_CALL_COMPLETE events were received: start event, invocation, *)
(* complete event for each call before the start event of the next; the    *)
(* tool messages enter the transcript only after the last invocation, one  *)
(* per call, in the order of the calls.                                    *)
(***************************************************************************)
ToolPhaseKinds == {"tool_call_start", "invoke", "tool_call_complete"}

\* the tool-phase entries of a piece of the trace, as <<kind, call id>>
RECURSIVE ToolPhase(_)
ToolPhase(seq) ==
    IF seq = <<>> THEN <<>>
    ELSE (IF Head(seq).kind \in ToolPhaseKinds
          THEN <<<<Head(seq).kind, Head(seq).data.call_id>>>> ELSE <<>>)
         \o ToolPhase(Tail(seq))

\* start, invocation, complete for each call id, in order
RECURSIVE ExpectedPhase(_)
ExpectedPhase(ids) ==
    IF ids = <<>> THEN <<>>
    ELSE <<<<"tool_call_start", Head(ids)>>, <<"invoke", Head(ids)>>,
           <<"tool_call_complete", Head(ids)>>>> \o ExpectedPhase(Tail(ids))

IsPrefix(a, b) == Len(a) <= Len(b) /\ SubSeq(b, 1, Len(a)) = a

\* the turn of request r has run all its tool calls
ToolsDone(r) == NextReq(r) <= Len(trace) \/ pc \in {"loop", "end", "done"}

C10_ToolsSequentialInOrder ==
    \A r \in Requests :
        LET ids == CallsOf(TurnSeq(r))
            phase == ToolPhase(TurnSeq(r))
            \* the transcript when the tools ran: the request's, plus the
            \* assistant message
            base == trace[r].nmsg + 1
        IN  /\ IsPrefix(phase, ExpectedPhase(ids))
            /\ \A i \in Turn(r) :
                  trace[i].kind \in ToolPhaseKinds => trace[i].nmsg = base
            /\ (ToolsDone(r) /\ RecvIn(r, "ERROR") = {} /\ ids # <<>>) =>
                  /\ phase = ExpectedPhase(ids)
                  /\ Len(messages) >= base + Len(ids)
                  /\ \A k \in 1..Len(ids) :
                        /\ messages[base + k].role = "tool"
                        /\ messages[base + k].tool_call_id = Some(ids[k])
                  /\ NextReq(r) <= Len(trace) =>
                        trace[NextReq(r)].nmsg = base + Len(ids)

\* a finished turn with two calls of different ids
C10_Witness ==
    \E r \in Requests :
        /\ ToolsDone(r)
        /\ CallsOf(TurnSeq(r)) = <<"c1", "">>
        /\ NextReq(r) <= Len(trace)

(***************************************************************************)
(* What one chat_completion call did: the backend log and the events.      *)
(***************************************************************************)
ByKind(log, k) == SelectSeq(log, LAMBDA x : x.kind = k)
Calls == Len(ByKind(blog, "call"))
Sleeps == ByKind(blog, "sleep")
Fails == ByKind(blog, "fail")
Finished == ppc \in {"returned", "raised"}
Terminators == {i \in DOMAIN out : out[i].type \in {"done", "error",
                                         "MESSAGE_COMPLETE", "ERROR"}}
Errors == {i \in DOMAIN out : out[i].type = ErrorType(provider)}
\* every attempt of the finished call failed with failure f
EveryAttemptFailed(f) ==
    /\ Finished
    /\ Calls >= 1
    /\ Len(Fails) = Calls
    /\ \A i \in DOMAIN Fails : Fails[i].failure = f
\* the delays of a full backoff: 2^0, 2^1, ... one per retry, none after the
\* last attempt
FullBackoff ==
    /\ Calls = p_max_retries + 1
    /\ Len(Sleeps) = p_max_retries
    /\ \A i \in DOMAIN Sleeps :
          /\ Sleeps[i].attempt = i - 1
          /\ i > 1 => /\ Sleeps[i].wait = 2 * Sleeps[i - 1].wait
                      /\ Sleeps[i].wait > Sleeps[i - 1].wait
    /\ blog[Len(blog)].kind = "fail"
OneErrorLast ==
    /\ out # <<>>
    /\ Errors = {Len(out)}
    /\ Terminators = {Len(out)}

\* C4: for the OpenAI-compatible, Anthropic and Google providers, whatever
\* the backend does, the events of one finished chat_completion call contain
\* exactly one done or error event, and it is the last event.
C4_OneTerminator ==
    (Finished /\ provider \in {"openai", "anthropic", "google"}) =>
        /\ out # <<>>
        /\ Terminators = {Len(out)}

\* C5: when every attempt is rate-limited, chat_completion of the
\* OpenAI-compatible provider and of the legacy client calls the backend
\* max_retries + 1 times, yields exactly one error event and stops; the
\* delays double from one retry to the next and no sleep follows the last
\* attempt.
C5_RateLimitedBackoff ==
    (provider \in {"openai", "legacy"} /\ EveryAttemptFailed("rate_limit")) =>
        /\ ppc = "returned"
        /\ FullBackoff
        /\ OneErrorLast

C5_Witness ==
    /\ provider = "openai"
    /\ p_max_retries = 2
    /\ EveryAttemptFailed("rate_limit")
    /\ Calls = 3
    /\ Len(Sleeps) = 2

\* C6: in the OpenAI-compatible provider and the legacy client, an attempt
\* that is followed by a retry has yielded no event to the caller, and the
\* caller never receives the same chunk of the answer twice.
C6_NoDuplicatedOutput ==
    provider \in {"openai", "legacy"} =>
        /\ \A s \in DOMAIN Sleeps : \A i \in DOMAIN out :
              out[i].attempt # Sleeps[s].attempt
        /\ \A i, j \in DOMAIN out :
              (i < j /\ out[i].chunk > 0) => out[i].chunk # out[j].chunk

\* C7: an API error that is neither a rate limit nor a connection failure
\* ends chat_completion at once, at any attempt and for any max_retries:
\* nothing follows it in the backend log (no sleep, no further call) and
\* exactly one error event is yielded, as the last event.
C7_ApiErrorNotRetried ==
    \A i \in DOMAIN blog :
        (blog[i].kind = "fail" /\ blog[i].failure = "api") =>
            /\ i = Len(blog)
            /\ ppc = "returned"
            /\ OneErrorLast
            /\ out[Len(out)].attempt = blog[i].attempt

C7_Witness ==
    /\ provider \in {"openai", "anthropic"}
    /\ blog # <<>>
    /\ blog[Len(blog)].kind = "fail"
    /\ blog[Len(blog)].failure = "api"
    /\ blog[Len(blog)].attempt = 1
    /\ p_max_retries = 2

\* C8: when every attempt fails with a connection failure, each of the
\* OpenAI-compatible, Anthropic and Google providers backs off as for a rate
\* limit and yields the error only after max_retries + 1 failed attempts.
C8_ConnectionFailureBackoff ==
    (provider \in {"openai", "anthropic", "google"}
        /\ EveryAttemptFailed("connection")) =>
        /\ ppc = "returned"
        /\ FullBackoff
        /\ OneErrorLast

(***************************************************************************)
(* C11: every run emits agent-start as its first lifecycle event and       *)
(* agent-end as its last, once each, however the loop ended (a turn        *)
(* without tool calls, an error event, max_turns exhausted); nothing       *)
(* follows agent-end.                                                      *)
(***************************************************************************)
KindAt(k) == {i \in Indices : trace[i].kind = k}

LastRequest == CHOOSE r \in Requests : \A q \in Requests : q <= r

C11_StartFirstEndLast ==
    /\ pc # "idle" =>
          /\ trace # <<>>
          /\ KindAt("agent_start") = {1}
    /\ KindAt("agent_end") \subseteq {Len(trace)}
    /\ pc = "done" => KindAt("agent_end") = {Len(trace)}

\* a run that used up max_turns = 2, every turn calling a tool, and ended
C11_Witness ==
    /\ pc = "done"
    /\ max_turns = 2
    /\ Cardinality(Requests) = 2
    /\ \A r \in Requests : RecvIn(r, "TOOL_CALL_COMPLETE") # {}
    /\ KindAt("agent_error") = {}
    /\ trace[Len(trace) - 1].kind = "tool_call_complete"
    /\ trace[Len(trace)].kind = "agent_end"

(***************************************************************************)
(* C12: the agent-end response is the text of the turn that ended the loop *)
(* with no tool calls, and is empty whenever the loop ended because        *)
(* max_turns was reached (the last turn requested tools).                  *)
(***************************************************************************)
C12_EndResponse ==
    (pc = "done" /\ Requests # {}) =>
        LET r == LastRequest
            response == trace[Len(trace)].data.response
        IN  /\ RecvIn(r, "TOOL_CALL_COMPLETE") # {} => response = <<>>
            /\ (RecvIn(r, "TOOL_CALL_COMPLETE") = {} /\ RecvIn(r, "ERROR") = {})
                  => response = TextOf(TurnSeq(r))

\* what the code does: the response is the content of the run's last
\* text-complete event, of whichever turn, or empty if there is none
C12_ResponseIsLastTextComplete ==
    pc = "done" =>
        LET tcs == KindAt("text_complete")
            response == trace[Len(trace)].data.response
        IN  IF tcs = {} THEN response = <<>>
            ELSE response =
                   trace[CHOOSE i \in tcs : \A j \in tcs : j <= i].data.content

(***************************************************************************)
(* C13: a failed tool invocation (unknown tool, invalid parameters, an     *)
(* exception inside the tool) is a result with success = false, never an   *)
(* exception; the orchestrator emits tool-call-complete with success =     *)
(* false, appends a tool message carrying the error text, still runs the   *)
(* remaining calls of the turn and goes on to the next turn, and emits no  *)
(* agent-error event for it.                                               *)
(***************************************************************************)
\* the tool-call-complete events of turn r, in order
CompletesOf(r) ==
    SelectSeq(TurnSeq(r), LAMBDA e : e.kind = "tool_call_complete")

C13_ToolFailureIsLocal ==
    /\ \A o \in FailedOutcomes :
          invoke(o) \in ToolResults /\ ~invoke(o).success
    /\ \A r \in Requests :
          LET ids == CallsOf(TurnSeq(r))
              done == CompletesOf(r)
              base == trace[r].nmsg + 1
          IN  (\E k \in DOMAIN done : ~done[k].data.success) =>
                /\ \A i \in Turn(r) : trace[i].kind # "agent_error"
                /\ ToolsDone(r) =>
                      /\ Len(done) = Len(ids)
                      /\ \A k \in DOMAIN done :
                            /\ done[k].data.call_id = ids[k]
                            /\ messages[base + k].role = "tool"
                            /\ messages[base + k].content =
                                  (IF done[k].data.success THEN <<"o">>
                                   ELSE <<"E", "o">>)
                      /\ (trace[r].data.turn < max_turns /\ pc # "loop") =>
                            NextReq(r) <= Len(trace)

\* a turn of two calls whose first invocation failed and whose second
\* succeeded, followed by the next turn's request
C13_Witness ==
    \E r \in Requests :
        /\ Len(CompletesOf(r)) = 2
        /\ ~CompletesOf(r)[1].data.success
        /\ CompletesOf(r)[2].data.success
        /\ NextReq(r) <= Len(trace)

(***************************************************************************)
(* Reading one backend stream of tool-call fragments and what the          *)
(* implementations yielded for it.                                         *)
(***************************************************************************)
IndexesSeen == {frags[i].index : i \in DOMAIN frags}

\* the argument fragments of index idx, concatenated in arrival order
RECURSIVE ArgsOf(_, _)
ArgsOf(fs, idx) ==
    IF fs = <<>> THEN <<>>
    ELSE (IF Head(fs).index = idx THEN Head(fs).arguments ELSE <<>>)
         \o ArgsOf(Tail(fs), idx)

\* the positions of the events of a kind that implementation impl yielded
\* for index idx
EventsFor(impl, kind, idx) ==
    {k \in DOMAIN sev[impl] :
        /\ sev[impl][k].type = EvType(impl, kind)
        /\ sev[impl][k].id = CallIdOf(idx)}

TheEvent(impl, kind, idx) ==
    sev[impl][CHOOSE k \in EventsFor(impl, kind, idx) : TRUE]

\* the fragments of index idx that carry a name
NamedFragments(idx) ==
    {i \in DOMAIN frags : frags[i].index = idx /\ frags[i].name # ""}

(***************************************************************************)
(* C14: for any fragments, interleaved between indices or not, each        *)
(* OpenAI-compatible implementation emits exactly one tool-call-complete   *)
(* event per index, only after the backend stream has ended, whose         *)
(* arguments come from the concatenation, in arrival order, of that        *)
(* index's argument fragments ({"q": "x"} for '{"q":' then '"x"}').        *)
(***************************************************************************)
C14_OneCompletePerIndex ==
    \A impl \in Impls :
        /\ spc = "streaming" =>
              \A idx \in Indexes : EventsFor(impl, "complete", idx) = {}
        /\ spc = "ended" =>
              \A idx \in Indexes :
                  IF idx \in IndexesSeen
                  THEN /\ Cardinality(EventsFor(impl, "complete", idx)) = 1
                       /\ TheEvent(impl, "complete", idx).arguments =
                             ParseArguments(impl, ArgsOf(frags, idx))
                       /\ (impl # "legacy"
                           /\ ArgsOf(frags, idx) = <<OpenQ, StrX, Close>>) =>
                             TheEvent(impl, "complete", idx).arguments =
                                <<"obj", <<"q">>, <<"str", <<"x">>>>>>
                  ELSE EventsFor(impl, "complete", idx) = {}

\* '{"q":' and '"x"}' on index 0 with a fragment of index 1 between them
C14_Witness ==
    /\ spc = "ended"
    /\ Len(frags) = 3
    /\ frags[1] = [index |-> 0, name |-> "search", arguments |-> <<OpenQ>>]
    /\ frags[2].index = 1
    /\ frags[2].arguments = <<StrX>>
    /\ frags[3] = [index |-> 0, name |-> "", arguments |-> <<StrX, Close>>]

(***************************************************************************)
(* C15: for each index some fragment of which carries a name, the          *)
(* registered provider and the legacy client emit exactly one              *)
(* tool-call-start event, also when the name comes after the index's first *)
(* fragment or is repeated, and the completed call carries that name.      *)
(***************************************************************************)
C15_OneStartPerIndex ==
    \A impl \in {"provider", "legacy"} : \A idx \in Indexes :
        NamedFragments(idx) # {} =>
            /\ Cardinality(EventsFor(impl, "start", idx)) = 1
            /\ spc = "ended" =>
                  TheEvent(impl, "complete", idx).name = "search"

(***************************************************************************)
(* C16: when the accumulated argument text is truncated ('{"q": "x"') or   *)
(* has a trailing comma ('{"q": "x",}'), the registered provider's         *)
(* tool-call event carries what parse_json_safe returns for that text.     *)
(***************************************************************************)
BrokenTexts == {<<OpenQ, StrX>>, <<OpenQ, StrX, Comma, Close>>}

C16_ProviderRepairsArguments ==
    spc = "ended" =>
        \A idx \in IndexesSeen :
            ArgsOf(frags, idx) \in BrokenTexts =>
                TheEvent("provider", "complete", idx).arguments =
                    parse_json_safe(ArgsOf(frags, idx))

\* what the registered provider does with text json.loads rejects (holds)
C16_ProviderKeepsRawText ==
    spc = "ended" =>
        \A idx \in IndexesSeen :
            ArgsOf(frags, idx) \in BrokenTexts =>
                /\ TheEvent("provider", "complete", idx).arguments =
                      <<"_raw", ArgsOf(frags, idx)>>
                /\ TheEvent("client_provider", "complete", idx).arguments =
                      <<"obj", <<"q">>, <<"str", <<"x">>>>>>

(***************************************************************************)
(* Reading what one request with the thinking parser yielded.              *)
(***************************************************************************)
TextEvents == SelectSeq(tev, LAMBDA e : e.type = "text")

Pieces(t) == {t[i] : i \in DOMAIN t}

(***************************************************************************)
(* C17: in tag-parsing mode the backend text                               *)
(* "<think>internal</think>visible", in one chunk or split anywhere,       *)
(* yields one thinking event "internal" and then one text event "visible", *)
(* with no markup in either.                                               *)
(***************************************************************************)
C17_ThinkingThenVisible ==
    (/\ thinking_mode = "tags"
     /\ tpc = "returned"
     /\ backend_text = OpenMarker \o <<"i">> \o CloseMarker \o <<"v">>) =>
        /\ Len(tev) = 3
        /\ tev[1].type = "thinking" /\ tev[1].content = <<"i">>
        /\ tev[2].type = "text" /\ tev[2].content = <<"v">>
        /\ tev[3].type = "done"

(***************************************************************************)
(* C18: in tag-parsing mode every chunk of text outside thinking markers   *)
(* is emitted as a text event whose content is that chunk, character for   *)
(* character, leading and trailing whitespace included.                    *)
(***************************************************************************)
C18_OutsideTextVerbatim ==
    (/\ thinking_mode = "tags"
     /\ tpc \in {"streaming", "returned"}
     /\ Pieces(backend_text) \subseteq {"v", " "}) =>
        /\ Len(TextEvents) = Len(delivered)
        /\ \A k \in DOMAIN delivered : TextEvents[k].content = delivered[k]

(***************************************************************************)
(* C19: in tag-parsing mode nothing the backend sent between an opening    *)
(* marker and its closing marker is emitted in a text event, wherever the  *)
(* markers fall relative to the chunk boundaries.                          *)
(***************************************************************************)
C19_ThinkingNeverInText ==
    (/\ thinking_mode = "tags"
     /\ MarkerAt(backend_text, CloseMarker) # {}) =>
        \A k \in DOMAIN TextEvents : "i" \notin Pieces(TextEvents[k].content)

(***************************************************************************)
(* C20: when chat_completion is called the thinking buffer is empty and    *)
(* the in-thinking-block flag false before the first chunk of the request  *)
(* is processed, whatever state the previous request left (also one that   *)
(* ended inside a thinking block that was never closed).                   *)
(***************************************************************************)
C20_ThinkingStateReset ==
    (tpc = "streaming" /\ delivered = <<>>) =>
        /\ thinking_buffer = <<>>
        /\ ~in_thinking_block

\* a second request, made after one that ended inside an open thinking block
C20_Witness ==
    /\ requests = 2
    /\ tpc = "streaming"
    /\ delivered = <<>>
    /\ before_call.in_block
    /\ before_call.buffer # <<>>


\* ---------------------------------------------------------------------
\* Provider selection (SpecRegistry)
\* ---------------------------------------------------------------------

\* the positions of the priority list whose provider supports the model
Supporting(reg, model) ==
    {i \in DOMAIN reg.priority : supports_model(reg.priority[i], model)}

\* get_provider without a provider name on reg: the first provider in
\* priority order that supports the model, else the provider given
Selects(reg, model, otherwise) ==
    LET got == get_provider(reg, model, None)
    IN  /\ ~got.raised
        /\ got.instance = IF Supporting(reg, model) # {}
                          THEN reg.priority[Least(Supporting(reg, model))]
                          ELSE otherwise

\* the registries get_provider has seen or would see now
SeenRegistries ==
    {_ensure_providers_loaded(Registry, installed)}
        \cup {last_call[i].registry : i \in DOMAIN last_call}

C29_RequestOnSelectedProvider ==
    \A i \in DOMAIN last_call :
        provider_setting = "auto" /\ last_call[i].registry.providers # <<>>
            => last_call[i].on =
                   get_provider(last_call[i].registry,
                                last_call[i].model, None).instance

(***************************************************************************)
(* The parser functions (SpecParser).                                      *)
(***************************************************************************)
Parsed == parser_call = "parse_json_safe"
Repaired == parser_call = "repair_json"
Validated == parser_call = "validate_tool_call"

\* a keyed mapping: an object, or the last resort's mapping
IsDict(value) == value[1] \in {"obj", "raw_arguments"}

\* the mapping has the key _parse_error
HasParseError(value) == value[1] = "raw_arguments"

\* C22: whatever the text (valid JSON, truncated JSON, JSON inside prose,
\* other text), what parse_json_safe returns is a keyed mapping, never a
\* list, a number, a string or null.
C22_ParseReturnsMapping ==
    Parsed => IsDict(returned[1])

\* C23: for every text that is valid JSON, parsing repair_json(text)
\* succeeds and gives the value that parsing the text gives, also when a
\* string value contains braces, brackets, commas or an escaped newline.
C23_RepairKeepsValidJson ==
    Repaired /\ json_loads(json_str) # None =>
        json_loads(returned[1]) = json_loads(json_str)

\* the valid JSON a text was made from by putting a comma before its last
\* closer, or by cutting off closers at its end
WithTrailingComma == {v \in PlainJson : json_str \in TrailingCommas(v)}
TruncatedFrom == {v \in PlainJson : json_str \in Truncations(v)}

\* C24: repair_json removes a trailing comma before a closing brace or
\* bracket, maps an empty or blank text to "{}", and gives a text cut off
\* before its last closing braces and brackets (objects and arrays nested
\* in any order) its missing closers back, so that the result parses to
\* the original value.
C24_RepairRestores ==
    Repaired =>
        /\ \A v \in WithTrailingComma : returned[1] = Chars(v)
        /\ Strip(Chars(json_str)) = <<>> => returned[1] = <<Open, Close>>
        /\ \A v \in TruncatedFrom : json_loads(returned[1]) = json_loads(v)

\* C25: validate_tool_call reports failures in its result: an empty or
\* blank name makes the call invalid with a message containing "name", an
\* empty or blank call id with a message containing "call_id", both with
\* both; a call with id, name and mapping arguments is valid and has no
\* message; the message is absent exactly when the call is valid.
C25_ValidationReported ==
    Validated =>
        LET is_valid == returned[1].is_valid
            message == returned[1].message
            no_name == given_call.name \in {<<>>, <<" ">>}
            no_id == given_call.call_id \in {<<>>, <<" ">>}
        IN  /\ no_name => ~is_valid /\ message # None
                          /\ Contains(message[1], "name")
            /\ no_id => ~is_valid /\ message # None
                        /\ Contains(message[1], "call_id")
            /\ ~no_name /\ ~no_id /\ given_call.arguments = <<"mapping">>
                   => is_valid /\ message = None
            /\ is_valid <=> message = None

\* a call with a blank id and a blank name is reported with both messages
C25_Witness ==
    /\ Validated
    /\ given_call.name = <<" ">>
    /\ given_call.call_id = <<" ">>
    /\ ~returned[1].is_valid
    /\ returned[1].message =
           Some(<<"call_id", " is empty", "; ", "tool ", "name", " is empty">>)

\* C26: when parse_json_safe gets the arguments neither by direct parsing
\* nor by repair (of the text or of its {...} span) and falls back to the
\* heuristic extraction or to the last resort, the mapping it returns has
\* the flag _parse_error.
C26_FallbackIsFlagged ==
    Parsed /\ Strategy(json_str) \in {"heuristic", "last_resort"} =>
        HasParseError(returned[1])

(***************************************************************************)
(* The sub-agent tool (SpecSubagent).                                      *)
(***************************************************************************)
\* every assistant message with tool calls is followed by one tool message
\* for each of its calls
NoOpenToolCalls(msgs) ==
    \A i \in DOMAIN msgs :
        msgs[i].role = "assistant" =>
            \A k \in 1..Len(msgs[i].tool_calls) :
                i + k <= Len(msgs) /\ msgs[i + k].role = "tool"

C30_ConfigHasDefinitionMaxTurns ==
    entered = "execute" /\ sub_pc # "execute" =>
        /\ sub_pc \in {"running", "done"}
        /\ max_turns = definition.max_turns


(***************************************************************************)
(* The bridge between the registered provider and the agent loop           *)
(* (SpecAssembly).                                                         *)
(***************************************************************************)
\* the events of the given type in a sequence of events, in order
RECURSIVE OfType(_, _)
OfType(events, type) ==
    IF events = <<>> THEN <<>>
    ELSE (IF Head(events).type = type THEN <<Head(events)>> ELSE <<>>)
            \o OfType(Tail(events), type)

\* the id, name and arguments of a complete tool call event
CallOf(event) ==
    [id |-> event.id, name |-> event.name, arguments |-> event.arguments]

\* C28: when the provider's stream has ended, the TOOL_CALL_COMPLETE events
\* the bridge has yielded are, in order, the tool_call events of the
\* provider, each with the same id, name and arguments (also a call whose
\* name is empty).
C28_BridgeForwardsEveryToolCall ==
    spc = "ended" =>
        LET finalized == OfType(sev["provider"], "tool_call")
            forwarded == OfType(client_events, "TOOL_CALL_COMPLETE")
        IN  /\ Len(forwarded) = Len(finalized)
            /\ \A k \in DOMAIN finalized :
                    CallOf(forwarded[k]) = CallOf(finalized[k])

=============================================================================
